---- MODULE Spec2Model ----
(***************************************************************************)
(* A model of the Game Boy emulation engine of gameboy_speedrun_editor:    *)
(* the cartridge / bank controller (controller.go), the interrupt          *)
(* dispatch, the frame loop (Gameboy.Update) and the value-copy snapshot   *)
(* of an engine instance.                                                  *)
(***************************************************************************)
EXTENDS Integers, Sequences, FiniteSets, TLC

VARIABLES
    cart,       \* the cartridge under test (a Cart struct value)
    cart2,      \* a second, freshly constructed cartridge (save-data round trip)
    saveData,   \* the byte slice last returned by GetSaveData
    panicked,   \* the Go run-time panic that ended the program, or "none"
    op,         \* the operation performed by the last step
    ret,        \* the value returned by the last operation
    scn,        \* progress of the enable / write / read sequence on the cartridge
    budget,     \* number of operations the driver still performs
    gb,         \* the engine under test (a Gameboy struct value)
    gb2,        \* a value copy of the engine (gb2 := gb)
    upd,        \* the running Update call: its position and local variables
    audio,      \* the audio producers started and the APU.Write call in progress
    ed          \* the editor: its branches, key frames and frame cache

cartVars == <<cart, cart2, saveData, scn>>

engineVars == <<gb, gb2, upd, audio, ed>>

vars == <<cart, cart2, saveData, panicked, op, ret, scn, budget, gb, gb2, upd, audio, ed>>

-----------------------------------------------------------------------------
(* Bounds of the model                                                     *)

\* longest sequence of cartridge operations explored
MaxOps == 4

-----------------------------------------------------------------------------
(* Bit arithmetic on unsigned integers (Go's &, |, <<, >> on byte/uint32)  *)

RECURSIVE And(_, _)
And(a, b) ==
    IF a = 0 \/ b = 0 THEN 0
    ELSE (IF a % 2 = 1 /\ b % 2 = 1 THEN 1 ELSE 0) + 2 * And(a \div 2, b \div 2)

RECURSIVE Or(_, _)
Or(a, b) ==
    IF a = 0 THEN b
    ELSE IF b = 0 THEN a
    ELSE (IF a % 2 = 1 \/ b % 2 = 1 THEN 1 ELSE 0) + 2 * Or(a \div 2, b \div 2)

RECURSIVE Pow2(_)
Pow2(n) == IF n = 0 THEN 1 ELSE 2 * Pow2(n - 1)

\* wrap-around of Go's fixed-width unsigned types
U8(x) == x % 256
U16(x) == x % 65536

BitIsSet(value, bit) == And(value \div Pow2(bit), 1) = 1

SetBit(value, bit) == Or(value, U8(Pow2(bit)))

ResetBit(value, bit) == And(value, 255 - U8(Pow2(bit)))

-----------------------------------------------------------------------------
(* The cartridge: controller.go                                            *)

\* Mode
DMG == 1
CGB == 2

\* memoryBankType
romOnly == 0
mbc1 == 1
mbc2 == 2
mbc3 == 3
mbc5 == 4

\* len(Cart.ram) and len(Cart.rtc)
RamSize == 131072
RtcSize == 16

\* Sampled CPU addresses of the cartridge RAM window 0xA000-0xBFFF.
RamAddrs == {40960, 40976, 49151}

\* Sampled CPU addresses of the ROM-control window 0x0000-0x7FFF: every
\* register range, with address bit 8 clear and set where MBC2 decodes it.
RomAddrs == {0, 256, 8192, 8448, 12288, 16384, 24576}

\* Sampled byte values written to the control registers.
CtlValues == {0, 1, 5, 10, 16, 32, 128, 255}

\* Sampled byte values written to cartridge RAM.
RamValues == {0, 66, 255}

\* A Go byte array, zero when made: the map of its non-zero bytes, so that
\* equal arrays are equal maps.
ZeroArr == [i \in {} |-> 0]

ArrGet(a, i) == IF i \in DOMAIN a THEN a[i] ELSE 0

ArrPut(a, i, v) ==
    IF v = 0 THEN [j \in (DOMAIN a) \ {i} |-> a[j]]
    ELSE [j \in (DOMAIN a) \cup {i} |-> IF j = i THEN v ELSE a[j]]

\* A ROM image: its length and the two header bytes the engine decodes;
\* every other byte of the image reads 0.
Rom(len, b143, b147) == [len |-> len, b143 |-> b143, b147 |-> b147]

RomAt(rom, i) ==
    IF i = 323 THEN rom.b143 ELSE IF i = 327 THEN rom.b147 ELSE 0

\* The controller selection with the MBC3 range ending one header early.
MemoryBankOf_mbc3Short(mbcFlag) ==
    IF mbcFlag \in {0, 8, 9, 11, 12, 13} THEN romOnly
    ELSE IF mbcFlag <= 3 THEN mbc1
    ELSE IF mbcFlag <= 6 THEN mbc2
    ELSE IF mbcFlag < 19 THEN mbc3
    ELSE IF mbcFlag < 23 THEN mbc1
    ELSE IF mbcFlag < 31 THEN mbc5
    ELSE mbc1

\* The memoryBank NewCart selects from header byte 0x147.
MemoryBankOf(mbcFlag) ==
    IF mbcFlag \in {0, 8, 9, 11, 12, 13} THEN romOnly
    ELSE IF mbcFlag <= 3 THEN mbc1
    ELSE IF mbcFlag <= 6 THEN mbc2
    ELSE IF mbcFlag <= 19 THEN mbc3
    ELSE IF mbcFlag < 23 THEN mbc1
    ELSE IF mbcFlag < 31 THEN mbc5
    ELSE mbc1

\* The mode selected by bit 7 of header byte 0x143 alone.
ModeOf_bit7(b) ==
    IF b = 192 THEN CGB ELSE IF And(b, 128) # 0 THEN Or(DMG, CGB) ELSE DMG

\* The mode NewCart selects from header byte 0x143.
ModeOf(b) ==
    IF b = 128 THEN Or(DMG, CGB) ELSE IF b = 192 THEN CGB ELSE DMG

NewCart(rom, filename) ==
    [ title      |-> "",
      filename   |-> filename,
      mode       |-> ModeOf(RomAt(rom, 323)),
      memoryBank |-> MemoryBankOf(RomAt(rom, 327)),
      rom        |-> rom,
      romBank    |-> 1,
      romBanking |-> FALSE,
      ram        |-> ZeroArr,
      ramBank    |-> 0,
      ramEnabled |-> FALSE,
      rtc        |-> ZeroArr,
      latchedRtc |-> ZeroArr,
      latched    |-> FALSE ]

updateRomBankIfZero(c) ==
    IF c.romBank \in {0, 32, 64, 96}
    THEN [c EXCEPT !.romBank = c.romBank + 1]
    ELSE c

\* The RAM-enable register never switching RAM off.
RamEnableNibble_noDisable(c, value) ==
    IF And(value, 15) = 10 THEN [c EXCEPT !.ramEnabled = TRUE] ELSE c

\* The RAM-enable register shared by MBC1, MBC2 and MBC5.
RamEnableNibble(c, value) ==
    IF And(value, 15) = 10 THEN [c EXCEPT !.ramEnabled = TRUE]
    ELSE IF And(value, 15) = 0 THEN [c EXCEPT !.ramEnabled = FALSE]
    ELSE c

\* The MBC1 decoder with a mode select that only flips the mode flag.
WriteROM_mbc1_modeOnly(c, address, value) ==
    IF address < 8192 THEN RamEnableNibble(c, value)
    ELSE IF address < 16384 THEN
        updateRomBankIfZero(
            [c EXCEPT !.romBank = Or(And(c.romBank, 224), And(value, 31))])
    ELSE IF address < 24576 THEN
        IF c.romBanking
        THEN updateRomBankIfZero(
                [c EXCEPT !.romBank = Or(And(c.romBank, 31), And(value, 224))])
        ELSE [c EXCEPT !.ramBank = And(value, 3)]
    ELSE IF address < 32768 THEN [c EXCEPT !.romBanking = (And(value, 1) = 0)]
    ELSE c

WriteROM_mbc1(c, address, value) ==
    IF address < 8192 THEN RamEnableNibble(c, value)
    ELSE IF address < 16384 THEN
        updateRomBankIfZero(
            [c EXCEPT !.romBank = Or(And(c.romBank, 224), And(value, 31))])
    ELSE IF address < 24576 THEN
        IF c.romBanking
        THEN updateRomBankIfZero(
                [c EXCEPT !.romBank = Or(And(c.romBank, 31), And(value, 224))])
        ELSE [c EXCEPT !.ramBank = And(value, 3)]
    ELSE IF address < 32768 THEN
        IF And(value, 1) = 0
        THEN [c EXCEPT !.romBanking = TRUE, !.ramBank = 0]
        ELSE [c EXCEPT !.romBanking = FALSE, !.romBank = And(c.romBank, 31)]
    ELSE c

WriteROM_mbc2(c, address, value) ==
    IF address < 8192 THEN
        IF And(address, 256) = 0 THEN RamEnableNibble(c, value) ELSE c
    ELSE IF address < 16384 THEN
        IF And(address, 256) = 256
        THEN LET b == And(value, 15)
             IN [c EXCEPT !.romBank = IF b \in {0, 32, 64, 96} THEN b + 1 ELSE b]
        ELSE c
    ELSE c

\* The MBC3 decoder without the step from bank 0 to bank 1.
WriteROM_mbc3_zeroBank(c, address, value) ==
    IF address < 8192 THEN [c EXCEPT !.ramEnabled = (And(value, 10) # 0)]
    ELSE IF address < 16384 THEN [c EXCEPT !.romBank = And(value, 127)]
    ELSE IF address < 24576 THEN [c EXCEPT !.ramBank = value]
    ELSE c

WriteROM_mbc3(c, address, value) ==
    IF address < 8192 THEN [c EXCEPT !.ramEnabled = (And(value, 10) # 0)]
    ELSE IF address < 16384 THEN
        LET b == And(value, 127)
        IN [c EXCEPT !.romBank = IF b = 0 THEN 1 ELSE b]
    ELSE IF address < 24576 THEN [c EXCEPT !.ramBank = value]
    ELSE IF address < 32768 THEN
        IF value = 1 THEN [c EXCEPT !.latched = FALSE]
        ELSE IF value = 0 THEN [c EXCEPT !.latched = TRUE, !.rtc = c.latchedRtc]
        ELSE c
    ELSE c

\* The MBC5 decoder with one ROM bank register over 0x2000-0x3FFF.
WriteROM_mbc5_flat(c, address, value) ==
    IF address < 8192 THEN RamEnableNibble(c, value)
    ELSE IF address < 16384 THEN
        [c EXCEPT !.romBank = Or(And(c.romBank, 256), value)]
    ELSE IF address < 24576 THEN [c EXCEPT !.ramBank = And(value, 15)]
    ELSE c

WriteROM_mbc5(c, address, value) ==
    IF address < 8192 THEN RamEnableNibble(c, value)
    ELSE IF address < 12288 THEN
        [c EXCEPT !.romBank = Or(And(c.romBank, 256), value)]
    ELSE IF address < 16384 THEN
        [c EXCEPT !.romBank = Or(And(c.romBank, 255), And(value, 1) * 256)]
    ELSE IF address < 24576 THEN [c EXCEPT !.ramBank = And(value, 15)]
    ELSE c

\* Stores a byte in a ROM image.
RomPut(rom, i, v) ==
    IF i = 323 THEN [rom EXCEPT !.b143 = v]
    ELSE IF i = 327 THEN [rom EXCEPT !.b147 = v]
    ELSE rom

\* WriteROM also storing the written byte in the ROM image.
WriteROM_storing(c, address, value) ==
    LET d == CASE c.memoryBank = mbc1 -> WriteROM_mbc1(c, address, value)
               [] c.memoryBank = mbc2 -> WriteROM_mbc2(c, address, value)
               [] c.memoryBank = mbc3 -> WriteROM_mbc3(c, address, value)
               [] c.memoryBank = mbc5 -> WriteROM_mbc5(c, address, value)
               [] OTHER -> c
    IN [d EXCEPT !.rom = RomPut(d.rom, address, value)]

WriteROM(c, address, value) ==
    CASE c.memoryBank = romOnly -> c
      [] c.memoryBank = mbc1 -> WriteROM_mbc1(c, address, value)
      [] c.memoryBank = mbc2 -> WriteROM_mbc2(c, address, value)
      [] c.memoryBank = mbc3 -> WriteROM_mbc3(c, address, value)
      [] c.memoryBank = mbc5 -> WriteROM_mbc5(c, address, value)
      [] OTHER -> c

\* Read, WriteROM and WriteRAM panic ("unknown memory bank type") on a
\* controller tag outside the five known ones.
UnknownBankPanics(c) == c.memoryBank \notin {romOnly, mbc1, mbc2, mbc3, mbc5}

\* The index of c.ram a banked RAM access selects.  ramBank is at most 255
\* and the offset below 0x2000, so the uint32 sum never wraps.
RamSlot(c, address) == 8192 * c.ramBank + (address - 40960)

\* WriteRAM panics (index out of range) on these accesses.
WriteRAMPanics(c, address) ==
    /\ c.ramEnabled
    /\ CASE c.memoryBank \in {mbc1, mbc5} -> RamSlot(c, address) >= RamSize
         [] c.memoryBank = mbc2 -> FALSE
         [] c.memoryBank = mbc3 ->
                IF c.ramBank >= 4 THEN c.ramBank >= RtcSize
                ELSE RamSlot(c, address) >= RamSize
         [] OTHER -> FALSE

\* WriteRAM with the MBC1 bank offset left out of the index.
WriteRAM_mbc1Unbanked(c, address, value) ==
    CASE c.memoryBank = romOnly -> c
      [] ~c.ramEnabled -> c
      [] c.memoryBank = mbc1 ->
            [c EXCEPT !.ram = ArrPut(c.ram, address - 40960, value)]
      [] c.memoryBank = mbc2 ->
            [c EXCEPT !.ram = ArrPut(c.ram, address - 40960, And(value, 15))]
      [] c.memoryBank = mbc3 /\ c.ramBank >= 4 ->
            [c EXCEPT !.rtc = ArrPut(c.rtc, c.ramBank, value)]
      [] OTHER -> [c EXCEPT !.ram = ArrPut(c.ram, RamSlot(c, address), value)]

WriteRAM(c, address, value) ==
    CASE c.memoryBank = romOnly -> c
      [] ~c.ramEnabled -> c
      [] c.memoryBank = mbc2 ->
            [c EXCEPT !.ram = ArrPut(c.ram, address - 40960, And(value, 15))]
      [] c.memoryBank = mbc3 /\ c.ramBank >= 4 ->
            [c EXCEPT !.rtc = ArrPut(c.rtc, c.ramBank, value)]
      [] OTHER -> [c EXCEPT !.ram = ArrPut(c.ram, RamSlot(c, address), value)]

\* Read panics (index out of range) on these accesses of the RAM window.
ReadPanics(c, address) ==
    /\ address >= 32768
    /\ CASE c.memoryBank = romOnly -> address >= c.rom.len
         [] c.memoryBank \in {mbc1, mbc5} -> RamSlot(c, address) >= RamSize
         [] c.memoryBank = mbc2 -> FALSE
         [] c.memoryBank = mbc3 ->
                IF c.ramBank >= 4 THEN c.ramBank >= RtcSize
                ELSE RamSlot(c, address) >= RamSize

\* Read returning the live RTC register also while latched.
Read_liveRtc(c, address) ==
    IF c.memoryBank = romOnly \/ address < 16384 THEN RomAt(c.rom, address)
    ELSE IF address < 32768 THEN RomAt(c.rom, (address - 16384) + c.romBank * 16384)
    ELSE CASE c.memoryBank = mbc2 -> ArrGet(c.ram, address - 40960)
           [] c.memoryBank = mbc3 /\ c.ramBank >= 4 -> ArrGet(c.rtc, c.ramBank)
           [] OTHER -> ArrGet(c.ram, RamSlot(c, address))

Read(c, address) ==
    IF c.memoryBank = romOnly \/ address < 16384 THEN RomAt(c.rom, address)
    ELSE IF address < 32768 THEN RomAt(c.rom, (address - 16384) + c.romBank * 16384)
    ELSE CASE c.memoryBank = mbc2 -> ArrGet(c.ram, address - 40960)
           [] c.memoryBank = mbc3 /\ c.ramBank >= 4 ->
                IF c.latched THEN ArrGet(c.latchedRtc, c.ramBank)
                ELSE ArrGet(c.rtc, c.ramBank)
           [] OTHER -> ArrGet(c.ram, RamSlot(c, address))

\* A byte slice: its length and its bytes.  backing names the array the slice
\* points into: "own" for a freshly made array, "cart.ram" for Cart.ram itself.
Slice(backing, len, bytes) == [backing |-> backing, len |-> len, bytes |-> bytes]

NoData == Slice("nil", 0, ZeroArr)

\* The bytes seen through a slice while the cartridge is c.
SliceBytes(d, c) == IF d.backing = "cart.ram" THEN c.ram ELSE d.bytes

\* GetSaveData that makes the slice and leaves out the copy into it.
GetSaveData_unfilled(c) ==
    IF c.memoryBank = romOnly THEN Slice("own", 0, ZeroArr)
    ELSE Slice("own", RamSize, ZeroArr)

GetSaveData(c) ==
    IF c.memoryBank = romOnly THEN Slice("own", 0, ZeroArr)
    ELSE Slice("own", RamSize, c.ram)

\* copy(c.ram[:], data) copies min(len(c.ram), len(data)) bytes.
LoadSaveData(c, data) ==
    IF c.memoryBank = romOnly THEN c
    ELSE LET n == IF data.len < RamSize THEN data.len ELSE RamSize
             bytes == SliceBytes(data, c)
             take == {i \in DOMAIN bytes : i < n}
             keep == {i \in DOMAIN c.ram : i >= n}
         IN [c EXCEPT !.ram =
                [i \in take \cup keep |-> IF i \in take THEN bytes[i] ELSE c.ram[i]]]

-----------------------------------------------------------------------------
(* Specification Spec: sequences of bus accesses and save-data exchanges   *)
(* on a cartridge built by NewCart.                                        *)

\* Header bytes 0x147 of the cartridges driven: one per controller type.
DrivenHeaders == {0, 1, 5, 19, 27}

\* Length of the ROM images driven (32 KiB, the smallest cartridge).
RomLen == 32768

\* Save files initGameSaves may find on disk.
SaveFiles ==
    { Slice("own", 0, ZeroArr),
      Slice("own", 1, ArrPut(ZeroArr, 0, 66)),
      Slice("own", RamSize, ArrPut(ArrPut(ZeroArr, 16, 66), RamSize - 1, 66)) }

Op(name, address, value) == [name |-> name, address |-> address, value |-> value]

Scn(phase, en, addr, val) == [phase |-> phase, en |-> en, addr |-> addr, val |-> val]

NoScn == Scn(0, 0, 0, 0)

\* The engine variable of a specification that drives a bare cartridge.
NoGameboy == [none |-> TRUE]

\* No audio producer (no goroutine running APU.play) and no APU.Write call in
\* progress.
\* No editor window.
NoEditor == [none |-> TRUE]

NoAudio == [players |-> <<>>, engine |-> 0, write |-> <<0, 0>>]

\* No Update call is running and none has run.
NoUpdate ==
    [pc |-> "idle", cycles |-> 0, frames |-> 0, total |-> 0, spent |-> 0,
     cyclesOp |-> 0, irq |-> 0]

NoPanic == "none"
IndexPanic == "index out of range"
BankPanic == "unknown memory bank type"

\* The panic an access ends in: the controller switch is entered first.
PanicOf(c, indexFails) ==
    IF UnknownBankPanics(c) THEN BankPanic
    ELSE IF indexFails THEN IndexPanic
    ELSE NoPanic

CartInit ==
    /\ \E f \in DrivenHeaders : cart = NewCart(Rom(RomLen, 0, f), "game.gb")
    /\ cart2 = cart
    /\ saveData = NoData
    /\ panicked = NoPanic
    /\ op = Op("NewCart", 0, 0)
    /\ ret = 0
    /\ scn = NoScn
    /\ budget = MaxOps
    /\ gb = NoGameboy
    /\ gb2 = NoGameboy
    /\ upd = NoUpdate
    /\ audio = NoAudio
    /\ ed = NoEditor

CanStep == panicked = NoPanic /\ budget > 0

\* c.WriteROM(address, value)
WriteROMAct ==
    /\ CanStep
    /\ \E address \in RomAddrs, value \in CtlValues :
        LET p == PanicOf(cart, FALSE)
        IN /\ op' = Op("WriteROM", address, value)
           /\ panicked' = p
           /\ cart' = IF p # NoPanic THEN cart ELSE WriteROM(cart, address, value)
           /\ scn' = IF address < 8192 /\ value = 10 /\ p = NoPanic
                     THEN Scn(1, address, 0, 0) ELSE NoScn
    /\ ret' = 0
    /\ budget' = budget - 1
    /\ UNCHANGED <<cart2, saveData>>
    /\ UNCHANGED engineVars

\* c.WriteRAM(address, value)
WriteRAMAct ==
    /\ CanStep
    /\ \E address \in RamAddrs, value \in RamValues :
        LET p == PanicOf(cart, WriteRAMPanics(cart, address))
        IN /\ op' = Op("WriteRAM", address, value)
           /\ panicked' = p
           /\ cart' = IF p # NoPanic THEN cart ELSE WriteRAM(cart, address, value)
           /\ scn' = IF scn.phase = 1 /\ p = NoPanic
                     THEN Scn(2, scn.en, address, value) ELSE NoScn
    /\ ret' = 0
    /\ budget' = budget - 1
    /\ UNCHANGED <<cart2, saveData>>
    /\ UNCHANGED engineVars

\* c.Read(address) of the RAM window
ReadAct ==
    /\ CanStep
    /\ \E address \in RamAddrs :
        LET p == PanicOf(cart, ReadPanics(cart, address))
        IN /\ op' = Op("Read", address, 0)
           /\ panicked' = p
           /\ ret' = IF p # NoPanic THEN 0 ELSE Read(cart, address)
           /\ scn' = IF scn.phase = 2 /\ scn.addr = address /\ p = NoPanic
                     THEN Scn(3, scn.en, scn.addr, scn.val) ELSE NoScn
    /\ budget' = budget - 1
    /\ UNCHANGED <<cart, cart2, saveData>>
    /\ UNCHANGED engineVars

\* data := c.GetSaveData()
GetSaveDataAct ==
    /\ CanStep
    /\ saveData' = GetSaveData(cart)
    /\ op' = Op("GetSaveData", 0, 0)
    /\ ret' = 0
    /\ scn' = NoScn
    /\ budget' = budget - 1
    /\ UNCHANGED <<cart, cart2, panicked>>
    /\ UNCHANGED engineVars

\* c2 := NewCart(rom, filename); c2.LoadSaveData(c.GetSaveData())
RoundTripAct ==
    /\ CanStep
    /\ LET data == GetSaveData(cart)
       IN /\ saveData' = data
          /\ cart2' = LoadSaveData(NewCart(cart.rom, cart.filename), data)
    /\ op' = Op("RoundTrip", 0, 0)
    /\ ret' = 0
    /\ scn' = NoScn
    /\ budget' = budget - 1
    /\ UNCHANGED <<cart, panicked>>
    /\ UNCHANGED engineVars

\* c.LoadSaveData(file) as initGameSaves does with the save file it finds
LoadSaveDataAct ==
    /\ CanStep
    /\ \E file \in SaveFiles :
        /\ cart' = LoadSaveData(cart, file)
        /\ op' = Op("LoadSaveData", file.len, 0)
    /\ ret' = 0
    /\ scn' = NoScn
    /\ budget' = budget - 1
    /\ UNCHANGED <<cart2, saveData, panicked>>
    /\ UNCHANGED engineVars

CartNext ==
    \/ WriteROMAct
    \/ WriteRAMAct
    \/ ReadAct
    \/ GetSaveDataAct
    \/ RoundTripAct
    \/ LoadSaveDataAct

Init == CartInit

Next == CartNext

Spec == Init /\ [][Next]_vars

-----------------------------------------------------------------------------
(* Specification SpecNewCart: construction of a cartridge from every       *)
(* header, followed by one access of the cartridge built.                  *)

\* Sampled header bytes 0x143.
ModeBytes == {0, 128, 192}

\* The zero value Cart{}.
ZeroCart ==
    [ title      |-> "",
      filename   |-> "",
      mode       |-> 0,
      memoryBank |-> romOnly,
      rom        |-> Rom(0, 0, 0),
      romBank    |-> 0,
      romBanking |-> FALSE,
      ram        |-> ZeroArr,
      ramBank    |-> 0,
      ramEnabled |-> FALSE,
      rtc        |-> ZeroArr,
      latchedRtc |-> ZeroArr,
      latched    |-> FALSE ]

NewCartInit ==
    /\ cart = ZeroCart
    /\ cart2 = ZeroCart
    /\ saveData = NoData
    /\ panicked = NoPanic
    /\ op = Op("start", 0, 0)
    /\ ret = 0
    /\ scn = NoScn
    /\ budget = 0
    /\ gb = NoGameboy
    /\ gb2 = NoGameboy
    /\ upd = NoUpdate
    /\ audio = NoAudio
    /\ ed = NoEditor

\* cart = NewCart(rom, filename)
NewCartAct ==
    /\ op.name = "start"
    /\ \E b143 \in ModeBytes, b147 \in 0..255 :
        /\ cart' = NewCart(Rom(RomLen, b143, b147), "game.gb")
        /\ op' = Op("NewCart", b147, b143)
    /\ budget' = 1
    /\ UNCHANGED <<cart2, saveData, panicked, ret, scn>>
    /\ UNCHANGED engineVars

NewCartNext ==
    \/ NewCartAct
    \/ WriteROMAct
    \/ WriteRAMAct
    \/ ReadAct

SpecNewCart == NewCartInit /\ [][NewCartNext]_vars

-----------------------------------------------------------------------------
(* The engine: registers, memory bus, interrupts                           *)

\* Register: a 16-bit value and the mask applied to it when it is non-zero.
Register(value, mask) == [Value |-> value, Mask |-> mask]

RegHi(reg) == reg.Value \div 256

RegLo(reg) == And(reg.Value, 255)

HiLo(reg) == reg.Value

updateMask(reg) ==
    IF reg.Mask # 0 THEN [reg EXCEPT !.Value = And(reg.Value, reg.Mask)] ELSE reg

RegSet(reg, val) == updateMask([reg EXCEPT !.Value = val])

\* CPU.Init
CPUInit(cgb) ==
    [ AF      |-> [RegSet(Register(0, 0), IF cgb THEN 4480 ELSE 432)
                      EXCEPT !.Mask = 65520],
      BC      |-> RegSet(Register(0, 0), 0),
      DE      |-> RegSet(Register(0, 0), 65366),
      HL      |-> RegSet(Register(0, 0), 13),
      PC      |-> 256,
      SP      |-> RegSet(Register(0, 0), 65534),
      Divider |-> 0 ]

\* The memory image: the cartridge, the high RAM page 0xFF00-0xFFFF that
\* holds the I/O registers, and the other RAM of the bus by CPU address.
MemoryInit(rom) ==
    [ Cart    |-> NewCart(rom, ""),
      HighRAM |-> ZeroArr,
      RAM     |-> ZeroArr ]

\* Memory.ReadHighRam of a register the bus keeps as a plain byte.
ReadHighRam(g, address) == ArrGet(g.Memory.HighRAM, address - 65280)

\* Memory.Write: writes below 0x8000 and to 0xA000-0xBFFF go to the
\* cartridge, writes from 0xFF00 up to the high RAM page, all others to RAM.
MemWrite(g, address, value) ==
    IF address < 32768
    THEN [g EXCEPT !.Memory.Cart = WriteROM(g.Memory.Cart, address, value)]
    ELSE IF address >= 40960 /\ address < 49152
    THEN [g EXCEPT !.Memory.Cart = WriteRAM(g.Memory.Cart, address, value)]
    ELSE IF address >= 65280
    THEN [g EXCEPT !.Memory.HighRAM =
                        ArrPut(g.Memory.HighRAM, address - 65280, value)]
    ELSE [g EXCEPT !.Memory.RAM = ArrPut(g.Memory.RAM, address, value)]

\* The byte the bus holds at a RAM address.
MemByte(g, address) ==
    IF address >= 65280 THEN ArrGet(g.Memory.HighRAM, address - 65280)
    ELSE ArrGet(g.Memory.RAM, address)

\* The sample rate and the samples of one envelope step unit (sampleRate / 64
\* in int32 arithmetic is applied to envSweep * sampleRate).
sampleRate == 44100

\* A real number the code computes in float64, kept as the expression that
\* yields it: Frac(n, d) is n / d.
Frac(n, d) == <<n, d>>

\* Square(squareLimits[pattern]), Noise(), Waveform(ram), and the zero value
NoGenerator == [Type |-> "squareWave", Mod |-> Frac(0, 4)]
squareLimits(pattern) ==
    CASE pattern = 0 -> Frac(-1, 4) [] pattern = 1 -> Frac(-2, 4)
      [] pattern = 2 -> Frac(0, 4) [] OTHER -> Frac(2, 4)
Square(pattern) == [Type |-> "squareWave", Mod |-> squareLimits(pattern)]
Noise == [Type |-> "noiseWave", Mod |-> Frac(0, 4)]
Waveform == [Type |-> "ramWave", Mod |-> Frac(0, 4)]

\* A sound channel, as NewChannel returns it.  Frequency is kept as the
\* expression <<dividend, register value, sweep steps applied ...>>, SweepTime
\* in hundredths of a sample; Time, which only the generator reads, and
\* DebugOff are left out.
NewChannel ==
    [ Frequency          |-> <<0, 0>>,
      Generator          |-> NoGenerator,
      Amplitude          |-> Frac(0, 1),
      Duration           |-> 0,
      EnvelopeTime       |-> 0,
      EnvelopeSteps      |-> 0,
      EnvelopeStepsInit  |-> 0,
      EnvelopeSamples    |-> 0,
      EnvelopeIncreasing |-> FALSE,
      SweepTime          |-> 0,
      SweepStepLen       |-> 0,
      SweepSteps         |-> 0,
      SweepStep          |-> 0,
      SweepIncrease      |-> FALSE,
      On                 |-> FALSE ]

\* APU.Init without sound output: waveform RAM 00 00 FF FF ..., new channels.
APUInit ==
    [ Memory      |-> ZeroArr,
      Channel1    |-> NewChannel,
      Channel2    |-> NewChannel,
      Channel3    |-> NewChannel,
      Channel4    |-> NewChannel,
      LeftVolume  |-> Frac(0, 7),
      RightVolume |-> Frac(0, 7),
      WaveformRam |-> [x \in {x \in 0..31 : And(x, 2) # 0} |-> 255] ]

\* chn.Reset(duration) that leaves the envelope and sweep timers running.
Reset_keepTimers(chn, duration) ==
    [chn EXCEPT !.Amplitude = Frac(1, 1),
                !.Duration = duration]

\* chn.Reset(duration)
Reset(chn, duration) ==
    [chn EXCEPT !.Amplitude = Frac(1, 1),
                !.EnvelopeTime = 0,
                !.SweepTime = 0,
                !.SweepStep = 0,
                !.Duration = duration]

\* The duration the start functions compute: -1 without the length-enable
\* bit; with it, int(float64(length) * (1/64)) * sampleRate, where the
\* constant 1/64 (1/256 for channels 3 and 4) is the integer quotient 0.
startDuration(selection, length) == IF selection = 1 THEN (length * 0) * sampleRate ELSE -1

\* The envelope fields the start functions of channels 1, 2 and 4 set from
\* extractEnvelope(val).
withEnvelope(chn, val) ==
    LET envVolume == And(val, 240) \div 16
        envDirection == And(val, 8) \div 8
        envSweep == And(val, 7)
    IN [chn EXCEPT !.EnvelopeSteps = envVolume,
                   !.EnvelopeStepsInit = envVolume,
                   !.EnvelopeSamples = (envSweep * sampleRate) \div 64,
                   !.EnvelopeIncreasing = envDirection = 1]

\* a.start1()
start1(a) ==
    LET selection == And(ArrGet(a.Memory, 20), 64) \div 64
        length == And(ArrGet(a.Memory, 17), 63)
        m10 == ArrGet(a.Memory, 16)
        chn == withEnvelope(Reset(a.Channel1, startDuration(selection, length)),
                            ArrGet(a.Memory, 18))
    IN [a EXCEPT !.Channel1 =
            [chn EXCEPT !.SweepStepLen = And(m10, 112) \div 16,
                        !.SweepSteps = And(m10, 7),
                        !.SweepIncrease = (m10 \div 8) = 0]]

\* a.start2()
start2(a) ==
    LET selection == And(ArrGet(a.Memory, 25), 64) \div 64
        length == And(ArrGet(a.Memory, 22), 63)
    IN [a EXCEPT !.Channel2 =
            withEnvelope(Reset(a.Channel2, startDuration(selection, length)),
                         ArrGet(a.Memory, 23))]

\* a.start3(): the channel has no envelope register and its envelope fields
\* are left as they are.
start3(a) ==
    LET selection == And(ArrGet(a.Memory, 30), 64) \div 64
        length == ArrGet(a.Memory, 27)
    IN [a EXCEPT !.Channel3 =
            Reset([a.Channel3 EXCEPT !.Generator = Waveform],
                  startDuration(selection, 256 - length))]

\* a.start4()
start4(a) ==
    LET selection == And(ArrGet(a.Memory, 35), 64) \div 64
        length == And(ArrGet(a.Memory, 32), 63)
    IN [a EXCEPT !.Channel4 =
            withEnvelope(Reset(a.Channel4, startDuration(selection, U8(61 - length))),
                         ArrGet(a.Memory, 33))]

\* uint16(a.Memory[hi]&0x7)<<8 | uint16(a.Memory[lo])
frequencyValue(a, hi, lo) == And(ArrGet(a.Memory, hi), 7) * 256 + ArrGet(a.Memory, lo)

\* sound3Volume[value]
sound3Volume(value) ==
    CASE value = 0 -> Frac(0, 1) [] value = 1 -> Frac(1, 1)
      [] value = 2 -> Frac(1, 2) [] OTHER -> Frac(1, 4)

\* APU.Write(address, value)
APUWrite(a, address, value) ==
    LET a1 == [a EXCEPT !.Memory = ArrPut(@, address - 65280, value)]
        m25 == ArrGet(a1.Memory, 37)
        trigger == And(value, 128) = 128
    IN CASE address = 65300 ->
              LET a2 == IF trigger THEN start1(a1) ELSE a1
              IN [a2 EXCEPT !.Channel1.Frequency = <<131072, frequencyValue(a1, 20, 19)>>]
         [] address = 65297 ->
              [a1 EXCEPT !.Channel1.Generator = Square(And(ArrGet(a1.Memory, 17), 192) \div 64)]
         [] address = 65305 ->
              LET a2 == IF trigger THEN start2(a1) ELSE a1
              IN [a2 EXCEPT !.Channel2.Frequency = <<131072, frequencyValue(a1, 25, 24)>>]
         [] address = 65302 ->
              [a1 EXCEPT !.Channel2.Generator = Square(And(ArrGet(a1.Memory, 22), 192) \div 64)]
         [] address = 65306 ->
              [a1 EXCEPT !.Channel3.EnvelopeStepsInit =
                              IF And(ArrGet(a1.Memory, 26), 128) = 128 THEN 1 ELSE 0]
         [] address \in {65310, 65311} ->
              LET a2 == IF address = 65310 /\ trigger THEN start3(a1) ELSE a1
              IN [a2 EXCEPT !.Channel3.Frequency = <<65536, frequencyValue(a1, 30, 29)>>]
         [] address = 65308 ->
              [a1 EXCEPT !.Channel3.Amplitude =
                              sound3Volume(And(ArrGet(a1.Memory, 28), 96) \div 32)]
         [] address = 65314 ->
              [a1 EXCEPT !.Channel4.Frequency = <<524288, value>>]
         [] address = 65315 ->
              IF trigger THEN start4([a1 EXCEPT !.Channel4.Generator = Noise]) ELSE a1
         [] address = 65316 ->
              [a1 EXCEPT !.LeftVolume = Frac(And(ArrGet(a1.Memory, 36), 112) \div 16, 7),
                         !.RightVolume = Frac(And(ArrGet(a1.Memory, 36), 7), 7)]
         [] address = 65317 ->
              [a1 EXCEPT !.Channel1.On = And(m25, 1) = 1 \/ And(m25, 16) = 16,
                         !.Channel2.On = And(m25, 2) = 2 \/ And(m25, 32) = 32,
                         !.Channel3.On = And(m25, 4) = 4 \/ And(m25, 64) = 64,
                         !.Channel4.On = And(m25, 8) = 8 \/ And(m25, 128) = 128]
         [] OTHER -> a1

\* chn.shouldPlay()
shouldPlay(chn) == (chn.Duration = -1 \/ chn.Duration > 0) /\ chn.EnvelopeStepsInit > 0

\* chn.updateEnvelope()
updateEnvelope(chn) ==
    IF chn.EnvelopeSamples <= 0 THEN chn
    ELSE LET t == chn.EnvelopeTime + 1
         IN IF chn.EnvelopeSteps > 0 /\ t >= chn.EnvelopeSamples
            THEN LET steps == chn.EnvelopeSteps - 1
                 IN [chn EXCEPT !.EnvelopeTime = t - chn.EnvelopeSamples,
                                !.EnvelopeSteps = steps,
                                !.Amplitude =
                                    IF steps = 0 THEN Frac(0, 1)
                                    ELSE IF chn.EnvelopeIncreasing
                                    THEN Frac(chn.EnvelopeStepsInit - steps, chn.EnvelopeStepsInit)
                                    ELSE Frac(steps, chn.EnvelopeStepsInit)]
            ELSE [chn EXCEPT !.EnvelopeTime = t]

\* sweepTimes[len] in hundredths of a sample; 0 for a length not in the map.
sweepTimes(len) ==
    CASE len = 1 -> 34398 [] len = 2 -> 68796 [] len = 3 -> 103194
      [] len = 4 -> 138033 [] len = 5 -> 172431 [] len = 6 -> 206829
      [] len = 7 -> 241227 [] OTHER -> 0

\* chn.updateSweep(); SweepTime counts hundredths of a sample.
updateSweep(chn) ==
    IF chn.SweepStep >= chn.SweepSteps THEN chn
    ELSE LET t == sweepTimes(chn.SweepStepLen)
             time == chn.SweepTime + 100
         IN IF time > t
            THEN [chn EXCEPT !.SweepTime = time - t,
                             !.SweepStep = chn.SweepStep + 1,
                             !.Frequency = Append(chn.Frequency,
                                 IF chn.SweepIncrease THEN chn.SweepStep + 1
                                 ELSE -(chn.SweepStep + 1))]
            ELSE [chn EXCEPT !.SweepTime = time]

\* chn.Sample(apu): the channel after the sample is taken.
Sample(chn) ==
    LET played == IF shouldPlay(chn) /\ chn.On /\ chn.Duration > 0
                  THEN [chn EXCEPT !.Duration = chn.Duration - 1] ELSE chn
    IN updateSweep(updateEnvelope(played))

\* NewGameboy: setup and init
NewGameboy(rom, opts) ==
    [ Options            |-> opts,
      Memory             |-> MemoryInit(rom),
      CPU                |-> CPUInit(opts.CGBMode),
      Sound              |-> APUInit,
      TimerCounter       |-> 0,
      ScanlineCounter    |-> 456,
      InterruptsEnabling |-> FALSE,
      InterruptsOn       |-> FALSE,
      Halted             |-> FALSE,
      InputMask          |-> 255,
      CGBMode            |-> opts.CGBMode /\ And(ModeOf(RomAt(rom, 323)), CGB) # 0,
      ExtraCycles        |-> 0 ]

requestInterrupt(g, interrupt) ==
    MemWrite(g, 65295, SetBit(ReadHighRam(g, 65295), interrupt))

\* PressButton without the joypad interrupt request.
PressButton_noRequest(g, button) == [g EXCEPT !.InputMask = ResetBit(@, button)]

PressButton(g, button) ==
    requestInterrupt([g EXCEPT !.InputMask = ResetBit(@, button)], 4)

ReleaseButton(g, button) == [g EXCEPT !.InputMask = SetBit(@, button)]

\* pushStack with the two bytes of the address stored the other way round.
pushStack_swapped(g, address) ==
    LET sp == HiLo(g.CPU.SP)
        g1 == MemWrite(g, U16(sp - 1), And(address, 255))
        g2 == MemWrite(g1, U16(sp - 2), And(address, 65280) \div 256)
    IN [g2 EXCEPT !.CPU.SP = RegSet(g2.CPU.SP, U16(HiLo(g2.CPU.SP) - 2))]

pushStack(g, address) ==
    LET sp == HiLo(g.CPU.SP)
        g1 == MemWrite(g, U16(sp - 1), And(address, 65280) \div 256)
        g2 == MemWrite(g1, U16(sp - 2), And(address, 255))
    IN [g2 EXCEPT !.CPU.SP = RegSet(g2.CPU.SP, U16(HiLo(g2.CPU.SP) - 2))]

interruptAddresses(i) ==
    CASE i = 0 -> 64 [] i = 1 -> 72 [] i = 2 -> 80 [] i = 3 -> 88 [] i = 4 -> 96

\* serviceInterrupt without the early return for a halted CPU with IME off.
serviceInterrupt_always(g, interrupt) ==
    LET g1 == [g EXCEPT !.InterruptsOn = FALSE, !.Halted = FALSE]
        g2 == MemWrite(g1, 65295, ResetBit(ReadHighRam(g1, 65295), interrupt))
        g3 == pushStack(g2, g2.CPU.PC)
    IN [g3 EXCEPT !.CPU.PC = interruptAddresses(interrupt)]

serviceInterrupt(g, interrupt) ==
    IF ~g.InterruptsOn /\ g.Halted THEN [g EXCEPT !.Halted = FALSE]
    ELSE LET g1 == [g EXCEPT !.InterruptsOn = FALSE, !.Halted = FALSE]
             g2 == MemWrite(g1, 65295, ResetBit(ReadHighRam(g1, 65295), interrupt))
             g3 == pushStack(g2, g2.CPU.PC)
         IN [g3 EXCEPT !.CPU.PC = interruptAddresses(interrupt)]

\* The result of a call: the engine it leaves and the value it returns.
Result(g, cycles) == [gb |-> g, cycles |-> cycles]

\* The scan of doInterrupts from bit i upward.
RECURSIVE ScanInterrupts(_, _, _, _)
ScanInterrupts(g, req, enabled, i) ==
    IF i >= 5 THEN Result(g, 0)
    ELSE IF BitIsSet(req, i) /\ BitIsSet(enabled, i)
    THEN Result(serviceInterrupt(g, i), 20)
    ELSE ScanInterrupts(g, req, enabled, i + 1)

\* The scan of doInterrupts run from bit i downward.
RECURSIVE ScanInterruptsDown(_, _, _, _)
ScanInterruptsDown(g, req, enabled, i) ==
    IF i < 0 THEN Result(g, 0)
    ELSE IF BitIsSet(req, i) /\ BitIsSet(enabled, i)
    THEN Result(serviceInterrupt(g, i), 20)
    ELSE ScanInterruptsDown(g, req, enabled, i - 1)

\* doInterrupts taking the highest-numbered pending bit first.
doInterrupts_highFirst(g) ==
    IF g.InterruptsEnabling
    THEN Result([g EXCEPT !.InterruptsOn = TRUE, !.InterruptsEnabling = FALSE], 0)
    ELSE IF ~g.InterruptsOn /\ ~g.Halted THEN Result(g, 0)
    ELSE LET req == ReadHighRam(g, 65295)
             enabled == ReadHighRam(g, 65535)
         IN IF req > 0 THEN ScanInterruptsDown(g, req, enabled, 4) ELSE Result(g, 0)

\* doInterrupts going on to the scan in the call that turns IME on.
doInterrupts_noDelay(g) ==
    LET g1 == IF g.InterruptsEnabling
              THEN [g EXCEPT !.InterruptsOn = TRUE, !.InterruptsEnabling = FALSE]
              ELSE g
    IN IF ~g1.InterruptsOn /\ ~g1.Halted THEN Result(g1, 0)
       ELSE LET req == ReadHighRam(g1, 65295)
                enabled == ReadHighRam(g1, 65535)
            IN IF req > 0 THEN ScanInterrupts(g1, req, enabled, 0) ELSE Result(g1, 0)

doInterrupts(g) ==
    IF g.InterruptsEnabling
    THEN Result([g EXCEPT !.InterruptsOn = TRUE, !.InterruptsEnabling = FALSE], 0)
    ELSE IF ~g.InterruptsOn /\ ~g.Halted THEN Result(g, 0)
    ELSE LET req == ReadHighRam(g, 65295)
             enabled == ReadHighRam(g, 65535)
         IN IF req > 0 THEN ScanInterrupts(g, req, enabled, 0) ELSE Result(g, 0)

-----------------------------------------------------------------------------
(* Specification SpecInterrupts: doInterrupts called on an engine in any   *)
(* interrupt state.                                                        *)

\* consecutive doInterrupts calls explored
MaxCalls == 2

\* Header byte 0x147 of the cartridge in the engine.
EngineHeader == 1

\* Sampled program counters and stack pointers: the stack in high RAM (the
\* value CPU.Init sets), in work RAM, on top of the request register
\* 0xFF0F, and in the cartridge's ROM-control window.
PCValues == {336, 49443}
SPValues == {65534, 53248, 65296, 8193}

\* The engine with its interrupt state, program counter and stack pointer set.
EngineAt(req, enabled, ime, enabling, halted, pc, sp) ==
    LET g0 == NewGameboy(Rom(RomLen, 0, EngineHeader), [Sound |-> FALSE, CGBMode |-> FALSE])
        g1 == MemWrite(MemWrite(g0, 65295, req), 65535, enabled)
    IN [g1 EXCEPT !.InterruptsOn = ime,
                  !.InterruptsEnabling = enabling,
                  !.Halted = halted,
                  !.CPU.PC = pc,
                  !.CPU.SP = RegSet(g1.CPU.SP, sp)]

\* Update calls doInterrupts after every instruction, so the enabling flag
\* set by EI is consumed in the iteration of the EI itself, where the CPU is
\* not halted: the two flags are never set together.
InterruptsInit ==
    /\ \E req \in 0..31, enabled \in 0..31, ime \in BOOLEAN,
          enabling \in BOOLEAN, halted \in BOOLEAN,
          pc \in PCValues, sp \in SPValues :
            /\ ~(enabling /\ halted)
            /\ gb = EngineAt(req, enabled, ime, enabling, halted, pc, sp)
    /\ gb2 = NoGameboy
    /\ upd = NoUpdate
    /\ audio = NoAudio
    /\ ed = NoEditor
    /\ cart = ZeroCart
    /\ cart2 = ZeroCart
    /\ saveData = NoData
    /\ panicked = NoPanic
    /\ op = Op("start", 0, 0)
    /\ ret = 0
    /\ scn = NoScn
    /\ budget = MaxCalls

\* cycles := gb.doInterrupts()
DoInterruptsAct ==
    /\ budget > 0
    /\ LET r == doInterrupts(gb)
       IN gb' = r.gb /\ ret' = r.cycles
    /\ op' = Op("doInterrupts", 0, MaxCalls - budget)
    /\ budget' = budget - 1
    /\ UNCHANGED <<cartVars, audio, ed, panicked, gb2, upd>>

InterruptsNext == DoInterruptsAct

SpecInterrupts == InterruptsInit /\ [][InterruptsNext]_vars

-----------------------------------------------------------------------------
(* The frame loop: Gameboy.Update                                          *)

ClockSpeed == 4194304

FramesSecond == 60

CyclesPerFrame == ClockSpeed \div FramesSecond

\* Timer registers of the high RAM page.
DIV == 65284
TIMA == 65285
TMA == 65286
TAC == 65287

isClockEnabled(g) == BitIsSet(ReadHighRam(g, TAC), 2)

getClockFreq(g) == And(ReadHighRam(g, TAC), 3)

getClockFreqCount(g) ==
    CASE getClockFreq(g) = 0 -> 1024
      [] getClockFreq(g) = 1 -> 16
      [] getClockFreq(g) = 2 -> 64
      [] OTHER -> 256

dividerRegister(g, cycles) ==
    LET d == g.CPU.Divider + cycles
    IN IF d >= 255
       THEN [g EXCEPT !.CPU.Divider = d - 255,
                      !.Memory.HighRAM =
                          ArrPut(@, DIV - 65280, U8(ArrGet(@, DIV - 65280) + 1))]
       ELSE [g EXCEPT !.CPU.Divider = d]

\* The loop of updateTimers stopping one cycle late.
RECURSIVE TimerTicks_late(_, _)
TimerTicks_late(g, freq) ==
    IF g.TimerCounter <= freq THEN g
    ELSE LET g1 == [g EXCEPT !.TimerCounter = @ - freq]
             tima == ReadHighRam(g1, TIMA)
         IN IF tima = 255
            THEN TimerTicks_late(
                    requestInterrupt(
                        [g1 EXCEPT !.Memory.HighRAM =
                            ArrPut(@, TIMA - 65280, ReadHighRam(g1, TMA))], 2),
                    freq)
            ELSE TimerTicks_late(
                    [g1 EXCEPT !.Memory.HighRAM = ArrPut(@, TIMA - 65280, tima + 1)],
                    freq)

\* The loop of updateTimers: one TIMA tick per elapsed period.
RECURSIVE TimerTicks(_, _)
TimerTicks(g, freq) ==
    IF g.TimerCounter < freq THEN g
    ELSE LET g1 == [g EXCEPT !.TimerCounter = @ - freq]
             tima == ReadHighRam(g1, TIMA)
         IN IF tima = 255
            THEN TimerTicks(
                    requestInterrupt(
                        [g1 EXCEPT !.Memory.HighRAM =
                            ArrPut(@, TIMA - 65280, ReadHighRam(g1, TMA))], 2),
                    freq)
            ELSE TimerTicks(
                    [g1 EXCEPT !.Memory.HighRAM = ArrPut(@, TIMA - 65280, tima + 1)],
                    freq)

updateTimers(g, cycles) ==
    LET g1 == dividerRegister(g, cycles)
    IN IF isClockEnabled(g1)
       THEN TimerTicks([g1 EXCEPT !.TimerCounter = @ + cycles], getClockFreqCount(g1))
       ELSE g1

\* The cycle costs ExecuteNextOpcode returns: one to six machine cycles.
OpCosts == {4, 8, 12, 16, 20, 24}

\* The cost of the instruction the explored programs are mostly made of.
PlainCost == 24

\* updateGraphics, as far as the frame loop depends on it: entering the
\* vertical blank requests interrupt 0.
updateGraphics(g, vblank) == IF vblank THEN requestInterrupt(g, 0) ELSE g

\* The loop condition of Update.
UpdateContinues_late(cycles) == cycles < CyclesPerFrame + 4

UpdateContinues(cycles) == cycles < CyclesPerFrame

\* The remainder Update carries into the next call.
UpdateExtra_dropped(cycles) == 0

UpdateExtra(cycles) == cycles - CyclesPerFrame

\* Update leaving its loop with the given cycle count: it stores the
\* remainder and returns the count.
UpdateReturn(g, u, cyclesOp, irq) ==
    /\ gb' = [g EXCEPT !.ExtraCycles = UpdateExtra(u.cycles)]
    /\ upd' = [u EXCEPT !.pc = "idle", !.frames = @ + 1,
                        !.cyclesOp = cyclesOp, !.irq = irq]
    /\ ret' = u.cycles

\* Update either runs its loop again or returns.
UpdateLoopOrReturn(g, u, cyclesOp, irq) ==
    IF UpdateContinues(u.cycles)
    THEN gb' = g /\ upd' = u /\ ret' = ret
    ELSE UpdateReturn(g, u, cyclesOp, irq)

\* A value copy of an engine, seen after the engine g it was copied from (or
\* to) has run: the copy has every field of its own except the ROM slice,
\* whose bytes are the one image both engines refer to.
SharedRom(copy, g) ==
    IF copy = NoGameboy THEN copy
    ELSE [copy EXCEPT !.Memory.Cart.rom = g.Memory.Cart.rom]

\* number of Update calls explored
MaxFrames == 2

\* number of loop iterations that are not a plain instruction: an instruction
\* of another cost, a V-blank request, or both
MaxEvents == 1

\* interrupts enabled in the explored engines: V-blank and Timer
EnabledInterrupts == 5

UpdateInit ==
    /\ \E ime \in BOOLEAN, halted \in BOOLEAN :
            /\ ime \/ halted
            /\ gb = EngineAt(0, EnabledInterrupts, ime, FALSE, halted, 336, 65534)
    /\ gb2 = NoGameboy
    /\ upd = NoUpdate
    /\ audio = NoAudio
    /\ ed = NoEditor
    /\ cart = ZeroCart
    /\ cart2 = ZeroCart
    /\ saveData = NoData
    /\ panicked = NoPanic
    /\ op = Op("start", 0, 0)
    /\ ret = 0
    /\ scn = NoScn
    /\ budget = MaxEvents

\* gb.Update() is called: cycles := int(gb.ExtraCycles)
UpdateCallAct ==
    /\ upd.pc = "idle"
    /\ upd.frames < MaxFrames
    /\ UpdateLoopOrReturn(gb, [upd EXCEPT !.pc = "loop", !.cycles = gb.ExtraCycles,
                                           !.spent = 0,
                                           !.cyclesOp = 0, !.irq = 0], 0, 0)
    /\ gb2' = SharedRom(gb2, gb')
    /\ op' = Op("Update", 0, 0)
    /\ UNCHANGED <<cartVars, audio, ed, panicked, budget>>

\* An iteration that is not a plain one.
IsEvent(g, cyclesOp, vblank) == vblank \/ (~g.Halted /\ cyclesOp # PlainCost)

\* One iteration of the loop of Update.
UpdateIterAct ==
    /\ upd.pc = "loop"
    /\ \E cyclesOp \in (IF gb.Halted THEN {4} ELSE OpCosts), vblank \in BOOLEAN :
        /\ IsEvent(gb, cyclesOp, vblank) => budget > 0
        /\ budget' = IF IsEvent(gb, cyclesOp, vblank) THEN budget - 1 ELSE budget
        /\ LET g1 == updateTimers(updateGraphics(gb, vblank), cyclesOp)
               r == doInterrupts(g1)
               u == [upd EXCEPT !.cycles = @ + cyclesOp + r.cycles,
                                !.total = @ + cyclesOp + r.cycles,
                                !.spent = @ + cyclesOp + r.cycles]
           IN UpdateLoopOrReturn(r.gb, u, cyclesOp, r.cycles)
    /\ gb2' = SharedRom(gb2, gb')
    /\ op' = Op("Update", 0, 0)
    /\ UNCHANGED <<cartVars, audio, ed, panicked>>

UpdateNext == UpdateCallAct \/ UpdateIterAct

SpecUpdate == UpdateInit /\ [][UpdateNext]_vars

-----------------------------------------------------------------------------
(* Snapshots: an engine and a value copy of it                             *)

\* number of operations explored besides the Update call
MaxCopyOps == 2

\* ButtonA and ButtonDown
CopyButtons == {0, 7}

\* Cartridge writes: one in the header area of the RAM-enable window, a ROM
\* bank number, a byte of cartridge RAM.
CopyWrites == {<<327, 10>>, <<8192, 5>>, <<40960, 66>>}

\* Sound register writes: channel 3 on, channels 1 routed to both outputs.
ApuWrites == {<<65306, 128>>, <<65317, 17>>}

CopyInit ==
    /\ gb = NewGameboy(Rom(RomLen, 0, EngineHeader), [Sound |-> FALSE, CGBMode |-> FALSE])
    /\ gb2 = NoGameboy
    /\ upd = NoUpdate
    /\ audio = NoAudio
    /\ ed = NoEditor
    /\ cart = ZeroCart
    /\ cart2 = ZeroCart
    /\ saveData = NoData
    /\ panicked = NoPanic
    /\ op = Op("start", 0, 0)
    /\ ret = 0
    /\ scn = NoScn
    /\ budget = MaxCopyOps

\* The engine is between two Update calls and the driver goes on.
CanOperate == upd.pc = "idle" /\ budget > 0

\* gb2 := gb, as frameCache.set and the key frame list do
SnapshotAct ==
    /\ CanOperate
    /\ gb2' = gb
    /\ op' = Op("snapshot", 0, 0)
    /\ budget' = budget - 1
    /\ UNCHANGED <<cartVars, audio, ed, panicked, ret, gb, upd>>

\* gb := gb2, as generateFrame resumes from a cached frame
RestoreAct ==
    /\ CanOperate
    /\ gb2 # NoGameboy
    /\ gb' = gb2
    /\ op' = Op("restore", 0, 0)
    /\ budget' = budget - 1
    /\ UNCHANGED <<cartVars, audio, ed, panicked, ret, gb2, upd>>

\* An operation on the engine gb.
Operate(name, address, value, g) ==
    /\ CanOperate
    /\ gb' = g
    /\ gb2' = SharedRom(gb2, g)
    /\ op' = Op(name, address, value)
    /\ budget' = budget - 1
    /\ UNCHANGED <<cartVars, audio, ed, panicked, ret, upd>>

PressButtonAct == \E b \in CopyButtons : Operate("PressButton", b, 0, PressButton(gb, b))

ReleaseButtonAct == \E b \in CopyButtons : Operate("ReleaseButton", b, 0, ReleaseButton(gb, b))

CartWriteAct == \E w \in CopyWrites : Operate("Write", w[1], w[2], MemWrite(gb, w[1], w[2]))

ApuWriteAct ==
    \E w \in ApuWrites :
        Operate("APU.Write", w[1], w[2], [gb EXCEPT !.Sound = APUWrite(@, w[1], w[2])])

\* One Update call per run, made of plain instructions.
CopyUpdateAct ==
    \/ upd.frames = 0 /\ UpdateCallAct
    \/ UpdateIterAct /\ budget' = budget

CopyNext ==
    \/ SnapshotAct
    \/ RestoreAct
    \/ PressButtonAct
    \/ ReleaseButtonAct
    \/ CartWriteAct
    \/ ApuWriteAct
    \/ CopyUpdateAct

SpecCopy == CopyInit /\ [][CopyNext]_vars

-----------------------------------------------------------------------------
(* The buttons: PressButton and ReleaseButton on any input mask            *)

\* number of button operations explored
MaxPresses == 2

\* Request registers of the explored engines: none, V-blank and Timer, Joypad.
ButtonRequests == {0, 5, 16}

Buttons == 0..7

ButtonsInit ==
    /\ \E mask \in 0..255, req \in ButtonRequests :
            gb = [EngineAt(req, 0, FALSE, FALSE, FALSE, 336, 65534) EXCEPT !.InputMask = mask]
    /\ gb2 = NoGameboy
    /\ upd = NoUpdate
    /\ audio = NoAudio
    /\ ed = NoEditor
    /\ cart = ZeroCart
    /\ cart2 = ZeroCart
    /\ saveData = NoData
    /\ panicked = NoPanic
    /\ op = Op("start", 0, 0)
    /\ ret = 0
    /\ scn = NoScn
    /\ budget = MaxPresses

\* gb.PressButton(b)
PressAct ==
    /\ budget > 0
    /\ \E b \in Buttons :
        /\ gb' = PressButton(gb, b)
        /\ op' = Op("PressButton", b, 0)
    /\ budget' = budget - 1
    /\ UNCHANGED <<cartVars, audio, ed, panicked, ret, gb2, upd>>

\* gb.ReleaseButton(b)
ReleaseAct ==
    /\ budget > 0
    /\ \E b \in Buttons :
        /\ gb' = ReleaseButton(gb, b)
        /\ op' = Op("ReleaseButton", b, 0)
    /\ budget' = budget - 1
    /\ UNCHANGED <<cartVars, audio, ed, panicked, ret, gb2, upd>>

ButtonsNext == PressAct \/ ReleaseAct

SpecButtons == ButtonsInit /\ [][ButtonsNext]_vars

-----------------------------------------------------------------------------
(* Specification SpecTimers: updateTimers called with the cost of an       *)
(* instruction on an engine in any timer state.                            *)

\* consecutive updateTimers calls explored
MaxTimerCalls == 2

\* Sampled register contents: every TAC setting, TIMA far from, one before
\* and at its overflow, three reload values.
TacValues == 0..7
TimaValues == {0, 254, 255}
TmaValues == {0, 171, 255}

\* Sampled timer counters below the period: empty, part way, one machine
\* cycle before the period.
CounterValues(period) == {0, 12, period - 4}

TimersInit ==
    /\ \E tac \in TacValues, tima \in TimaValues, tma \in TmaValues, req \in {0, 1} :
        LET g0 == EngineAt(req, 0, FALSE, FALSE, FALSE, 336, 65534)
            g1 == [g0 EXCEPT !.Memory.HighRAM =
                       ArrPut(ArrPut(ArrPut(@, TAC - 65280, tac),
                                     TIMA - 65280, tima), TMA - 65280, tma)]
        IN \E counter \in CounterValues(getClockFreqCount(g1)) :
              gb = [g1 EXCEPT !.TimerCounter = counter]
    /\ gb2 = NoGameboy
    /\ upd = NoUpdate
    /\ audio = NoAudio
    /\ ed = NoEditor
    /\ cart = ZeroCart
    /\ cart2 = ZeroCart
    /\ saveData = NoData
    /\ panicked = NoPanic
    /\ op = Op("start", 0, 0)
    /\ ret = 0
    /\ scn = NoScn
    /\ budget = MaxTimerCalls

\* gb.updateTimers(cyclesOp)
UpdateTimersAct ==
    /\ budget > 0
    /\ \E cycles \in OpCosts :
        /\ gb' = updateTimers(gb, cycles)
        /\ op' = Op("updateTimers", 0, cycles)
    /\ budget' = budget - 1
    /\ UNCHANGED <<cartVars, audio, ed, panicked, ret, gb2, upd>>

TimersNext == UpdateTimersAct

SpecTimers == TimersInit /\ [][TimersNext]_vars

-----------------------------------------------------------------------------
(* Specification SpecHeader: NewCart called on ROM images of any length    *)
(* and any header byte 0x143.                                              *)

\* Sampled ROM lengths: empty, ending just before and just after header
\* bytes 0x143 and 0x147, ending before 0x150, and whole.
RomLens == {0, 323, 324, 327, 328, 335, 336, RomLen}

\* A ROM image of the given length: the header bytes it is too short to hold
\* do not exist.
RomOfLen(len, b143, b147) ==
    Rom(len, IF len > 323 THEN b143 ELSE 0, IF len > 327 THEN b147 ELSE 0)

\* NewCart panics (index out of range) reading rom[0x0143] or rom[0x147].
NewCartPanics(rom) == rom.len <= 323 \/ rom.len <= 327

\* GetMode returns the mode field.
GetMode(c) == c.mode

\* cart = NewCart(rom, filename)
HeaderNewCartAct ==
    /\ op.name = "start"
    /\ \E len \in RomLens, b143 \in 0..255, b147 \in DrivenHeaders :
        LET rom == RomOfLen(len, b143, b147)
        IN /\ panicked' = IF NewCartPanics(rom) THEN IndexPanic ELSE NoPanic
           /\ cart' = IF NewCartPanics(rom) THEN cart ELSE NewCart(rom, "game.gb")
           /\ op' = Op("NewCart", len, rom.b143)
    /\ UNCHANGED <<cart2, saveData, ret, scn, budget>>
    /\ UNCHANGED engineVars

HeaderNext == HeaderNewCartAct

SpecHeader == NewCartInit /\ [][HeaderNext]_vars

-----------------------------------------------------------------------------
(* Specification SpecJoypad: the joypad register read for any control byte *)
(* and any input mask.                                                     *)

\* joypad reads explored
MaxReads == 1

joypadValue(g, current) ==
    LET in == IF BitIsSet(current, 4) THEN And(g.InputMask, 15)
              ELSE IF BitIsSet(current, 5) THEN And(g.InputMask \div 16, 15)
              ELSE 15
    IN Or(Or(current, 192), in)

JoypadInit ==
    /\ \E mask \in 0..255 :
        gb = [EngineAt(0, 0, FALSE, FALSE, FALSE, 336, 65534) EXCEPT !.InputMask = mask]
    /\ gb2 = NoGameboy
    /\ upd = NoUpdate
    /\ audio = NoAudio
    /\ ed = NoEditor
    /\ cart = ZeroCart
    /\ cart2 = ZeroCart
    /\ saveData = NoData
    /\ panicked = NoPanic
    /\ op = Op("start", 0, 0)
    /\ ret = 0
    /\ scn = NoScn
    /\ budget = MaxReads

\* value := gb.joypadValue(current)
JoypadReadAct ==
    /\ budget > 0
    /\ \E current \in 0..255 :
        /\ ret' = joypadValue(gb, current)
        /\ op' = Op("joypadValue", 0, current)
    /\ budget' = budget - 1
    /\ UNCHANGED <<cartVars, panicked, engineVars>>

JoypadNext == JoypadReadAct

SpecJoypad == JoypadInit /\ [][JoypadNext]_vars

-----------------------------------------------------------------------------
(* The CPU: register pairs, flags and the CB-prefixed rotates and shifts   *)

RegSetHi(reg, val) ==
    updateMask([reg EXCEPT !.Value = Or(val * 256, And(reg.Value, 255))])

\* SetLo without the call of updateMask.
RegSetLo_unmasked(reg, val) ==
    [reg EXCEPT !.Value = Or(val, And(reg.Value, 65280))]

RegSetLo(reg, val) ==
    updateMask([reg EXCEPT !.Value = Or(val, And(reg.Value, 65280))])

setFlag(cpu, index, on) ==
    IF on THEN [cpu EXCEPT !.AF = RegSetLo(@, SetBit(RegLo(cpu.AF), index))]
    ELSE [cpu EXCEPT !.AF = RegSetLo(@, ResetBit(RegLo(cpu.AF), index))]

SetZ(cpu, on) == setFlag(cpu, 7, on)
SetN(cpu, on) == setFlag(cpu, 6, on)
SetH(cpu, on) == setFlag(cpu, 5, on)
SetC(cpu, on) == setFlag(cpu, 4, on)

FlagZ(cpu) == And(HiLo(cpu.AF) \div 128, 1) = 1
FlagN(cpu) == And(HiLo(cpu.AF) \div 64, 1) = 1
FlagH(cpu) == And(HiLo(cpu.AF) \div 32, 1) = 1
FlagC(cpu) == And(HiLo(cpu.AF) \div 16, 1) = 1

\* B(bool): 1 for true.
BoolToBit(b) == IF b THEN 1 ELSE 0

\* getMap[i] of cbInstructions: B, C, D, E, H, L, (HL), A.
cbGet(g, i) ==
    CASE i = 0 -> RegHi(g.CPU.BC)
      [] i = 1 -> RegLo(g.CPU.BC)
      [] i = 2 -> RegHi(g.CPU.DE)
      [] i = 3 -> RegLo(g.CPU.DE)
      [] i = 4 -> RegHi(g.CPU.HL)
      [] i = 5 -> RegLo(g.CPU.HL)
      [] i = 6 -> MemByte(g, HiLo(g.CPU.HL))
      [] OTHER -> RegHi(g.CPU.AF)

\* setMap[i] of cbInstructions.
cbSet(g, i, value) ==
    CASE i = 0 -> [g EXCEPT !.CPU.BC = RegSetHi(@, value)]
      [] i = 1 -> [g EXCEPT !.CPU.BC = RegSetLo(@, value)]
      [] i = 2 -> [g EXCEPT !.CPU.DE = RegSetHi(@, value)]
      [] i = 3 -> [g EXCEPT !.CPU.DE = RegSetLo(@, value)]
      [] i = 4 -> [g EXCEPT !.CPU.HL = RegSetHi(@, value)]
      [] i = 5 -> [g EXCEPT !.CPU.HL = RegSetLo(@, value)]
      [] i = 6 -> MemWrite(g, HiLo(g.CPU.HL), value)
      [] OTHER -> [g EXCEPT !.CPU.AF = RegSetHi(@, value)]

\* The flag updates every rotate and shift ends with.
cbFlags(g, rot, carry) ==
    [g EXCEPT !.CPU = SetC(SetH(SetN(SetZ(@, rot = 0), FALSE), FALSE), carry)]

instRlc(g, i) ==
    LET val == cbGet(g, i)
        carry == val \div 128
        rot == Or(And(val * 2, 255), carry)
    IN cbFlags(cbSet(g, i, rot), rot, carry = 1)

instRl(g, i) ==
    LET val == cbGet(g, i)
        newCarry == val \div 128
        oldCarry == BoolToBit(FlagC(g.CPU))
        rot == Or(And(val * 2, 255), oldCarry)
    IN cbFlags(cbSet(g, i, rot), rot, newCarry = 1)

instRrc(g, i) ==
    LET val == cbGet(g, i)
        carry == And(val, 1)
        rot == Or(val \div 2, U8(carry * 128))
    IN cbFlags(cbSet(g, i, rot), rot, carry = 1)

instRr(g, i) ==
    LET val == cbGet(g, i)
        newCarry == And(val, 1)
        oldCarry == BoolToBit(FlagC(g.CPU))
        rot == Or(val \div 2, U8(oldCarry * 128))
    IN cbFlags(cbSet(g, i, rot), rot, newCarry = 1)

instSla(g, i) ==
    LET val == cbGet(g, i)
        carry == val \div 128
        rot == And(val * 2, 255)
    IN cbFlags(cbSet(g, i, rot), rot, carry = 1)

\* SRA taking the carry from the sign bit it keeps.
instSra_carrySign(g, i) ==
    LET val == cbGet(g, i)
        rot == Or(And(val, 128), val \div 2)
    IN cbFlags(cbSet(g, i, rot), rot, val \div 128 = 1)

instSra(g, i) ==
    LET val == cbGet(g, i)
        rot == Or(And(val, 128), val \div 2)
    IN cbFlags(cbSet(g, i, rot), rot, And(val, 1) = 1)

instSrl(g, i) ==
    LET val == cbGet(g, i)
        carry == And(val, 1)
        rot == val \div 2
    IN cbFlags(cbSet(g, i, rot), rot, carry = 1)

\* The rotate and shift rows of the CB table: opcode 0x00+i .. 0x38+i
\* (0x30+i is SWAP).
CbRotates == {"RLC", "RRC", "RL", "RR", "SLA", "SRA", "SRL"}

cbInstructions(name, g, i) ==
    CASE name = "RLC" -> instRlc(g, i)
      [] name = "RRC" -> instRrc(g, i)
      [] name = "RL" -> instRl(g, i)
      [] name = "RR" -> instRr(g, i)
      [] name = "SLA" -> instSla(g, i)
      [] name = "SRA" -> instSra(g, i)
      [] OTHER -> instSrl(g, i)

-----------------------------------------------------------------------------
(* Specification SpecCB: CB rotates and shifts on any operand byte, any    *)
(* carry and any of the eight operands.                                    *)

\* CB instructions run in a row
MaxCbOps == 1

\* Work RAM, where the (HL) operand of the explored programs lives.
InWorkRam(address) == address >= 49152 /\ address < 57344

CbInit ==
    /\ \E val \in 0..255, carry \in BOOLEAN, i \in 0..7 :
        LET g0 == EngineAt(0, 0, FALSE, FALSE, FALSE, 336, 65534)
            g1 == [g0 EXCEPT !.CPU.HL = RegSet(@, 49168)]
            g2 == cbSet(g1, i, val)
        IN /\ gb = [g2 EXCEPT !.CPU = SetC(@, carry)]
           /\ op = Op("start", i, val)
    /\ gb2 = NoGameboy
    /\ upd = NoUpdate
    /\ audio = NoAudio
    /\ ed = NoEditor
    /\ cart = ZeroCart
    /\ cart2 = ZeroCart
    /\ saveData = NoData
    /\ panicked = NoPanic
    /\ ret = 0
    /\ scn = NoScn
    /\ budget = MaxCbOps

\* cbInstructions()[opcode](gb) for a rotate or shift opcode on the operand
\* the program has loaded
CbAct ==
    /\ budget > 0
    /\ \E name \in CbRotates :
        LET i == op.address
        IN /\ i = 6 => InWorkRam(HiLo(gb.CPU.HL))
           /\ gb' = cbInstructions(name, gb, i)
           /\ op' = Op(name, i, cbGet(gb, i))
    /\ budget' = budget - 1
    /\ UNCHANGED <<cartVars, audio, ed, panicked, ret, gb2, upd>>

CbNext == CbAct

SpecCB == CbInit /\ [][CbNext]_vars

-----------------------------------------------------------------------------
(* Specification SpecAF: Set, SetHi, SetLo and the flag setters on the AF  *)
(* pair of a CPU after Init.                                               *)

\* register operations in a row
MaxRegOps == 2

\* Sampled 16-bit and 8-bit values written to AF: all bits clear, all set,
\* only the low nibble, mixed.
AFWords == {0, 15, 4660, 43981, 65535}
AFBytes == {0, 15, 90, 255}

AFInit ==
    /\ \E cgb \in BOOLEAN :
        gb = NewGameboy(Rom(RomLen, 0, EngineHeader), [Sound |-> FALSE, CGBMode |-> cgb])
    /\ gb2 = NoGameboy
    /\ upd = NoUpdate
    /\ audio = NoAudio
    /\ ed = NoEditor
    /\ cart = ZeroCart
    /\ cart2 = ZeroCart
    /\ saveData = NoData
    /\ panicked = NoPanic
    /\ op = Op("start", 0, 0)
    /\ ret = 0
    /\ scn = NoScn
    /\ budget = MaxRegOps

\* gb.CPU.AF.Set(val)
AFSetAct ==
    /\ budget > 0
    /\ \E val \in AFWords :
        /\ gb' = [gb EXCEPT !.CPU.AF = RegSet(@, val)]
        /\ op' = Op("AF.Set", 0, val)
    /\ budget' = budget - 1
    /\ UNCHANGED <<cartVars, audio, ed, panicked, ret, gb2, upd>>

\* gb.CPU.AF.SetHi(val)
AFSetHiAct ==
    /\ budget > 0
    /\ \E val \in AFBytes :
        /\ gb' = [gb EXCEPT !.CPU.AF = RegSetHi(@, val)]
        /\ op' = Op("AF.SetHi", 0, val)
    /\ budget' = budget - 1
    /\ UNCHANGED <<cartVars, audio, ed, panicked, ret, gb2, upd>>

\* gb.CPU.AF.SetLo(val)
AFSetLoAct ==
    /\ budget > 0
    /\ \E val \in 0..255 :
        /\ gb' = [gb EXCEPT !.CPU.AF = RegSetLo(@, val)]
        /\ op' = Op("AF.SetLo", 0, val)
    /\ budget' = budget - 1
    /\ UNCHANGED <<cartVars, audio, ed, panicked, ret, gb2, upd>>

\* gb.CPU.SetZ(on), SetN(on), SetH(on), SetC(on)
SetFlagAct ==
    /\ budget > 0
    /\ \E index \in 4..7, on \in BOOLEAN :
        /\ gb' = [gb EXCEPT !.CPU =
                    CASE index = 7 -> SetZ(@, on)
                      [] index = 6 -> SetN(@, on)
                      [] index = 5 -> SetH(@, on)
                      [] OTHER -> SetC(@, on)]
        /\ op' = Op("setFlag", index, BoolToBit(on))
    /\ budget' = budget - 1
    /\ UNCHANGED <<cartVars, audio, ed, panicked, ret, gb2, upd>>

AFNext == AFSetAct \/ AFSetHiAct \/ AFSetLoAct \/ SetFlagAct

SpecAF == AFInit /\ [][AFNext]_vars

-----------------------------------------------------------------------------
(* The save loop: NewCart's local cartridge and the cartridge it returns    *)

\* longest sequence of engine writes explored beside the save loop
MaxSaveOps == 3

\* Battery-backed header types driven: one for each banked controller.
AutosaveHeaders == {3, 6, 19, 27}

\* c.Save(): the file is rewritten when GetSaveData returns any bytes.
Save(c, file) ==
    LET data == GetSaveData(c)
    IN IF data.len > 0 THEN data ELSE file

\* c.initGameSaves(): the save file, when there is one, is loaded into c.
initGameSaves(c, file) == IF file = NoData THEN c ELSE LoadSaveData(c, file)

\* NewCart(rom, filename) of a battery-backed type.  cart2 is the local
\* variable cartridge, which initGameSaves' goroutine keeps through the
\* pointer c; cart is the value NewCart returns, a copy of it.  saveData is the
\* save file on disk.
AutosaveInit ==
    /\ \E f \in AutosaveHeaders, file \in SaveFiles \cup {NoData} :
        /\ cart2 = initGameSaves(NewCart(Rom(RomLen, 0, f), "game.gb"), file)
        /\ saveData = file
    /\ cart = cart2
    /\ panicked = NoPanic
    /\ op = Op("NewCart", 0, 0)
    /\ ret = 0
    /\ scn = NoScn
    /\ budget = MaxSaveOps
    /\ gb = NoGameboy
    /\ gb2 = NoGameboy
    /\ upd = NoUpdate
    /\ audio = NoAudio
    /\ ed = NoEditor

\* the engine enables the RAM of the returned cartridge
EngineEnableAct ==
    /\ budget > 0
    /\ cart' = WriteROM(cart, 0, 10)
    /\ op' = Op("WriteROM", 0, 10)
    /\ budget' = budget - 1
    /\ UNCHANGED <<cart2, saveData, panicked, ret, scn>>
    /\ UNCHANGED engineVars

\* the engine writes to the RAM of the returned cartridge
EngineWriteAct ==
    /\ budget > 0
    /\ \E address \in RamAddrs, value \in RamValues :
        /\ ~WriteRAMPanics(cart, address)
        /\ cart' = WriteRAM(cart, address, value)
        /\ op' = Op("WriteRAM", address, value)
    /\ budget' = budget - 1
    /\ UNCHANGED <<cart2, saveData, panicked, ret, scn>>
    /\ UNCHANGED engineVars

\* one tick of the ticker: the goroutine runs c.Save()
SaveTickAct ==
    /\ saveData' = Save(cart2, saveData)
    /\ op' = Op("Save", 0, 0)
    /\ UNCHANGED <<cart, cart2, panicked, ret, scn, budget>>
    /\ UNCHANGED engineVars

AutosaveNext == EngineEnableAct \/ EngineWriteAct \/ SaveTickAct

\* The ticker fires every second for as long as the process runs.
SpecAutosave == AutosaveInit /\ [][AutosaveNext]_vars /\ WF_vars(SaveTickAct)

-----------------------------------------------------------------------------
(* Sound: register writes and samples                                      *)

\* longest sequence of register writes and samples explored
MaxApuOps == 4

\* The registers a game has programmed before the writes explored: sweep
\* (0xFF10), the envelopes of channels 1, 2 and 4 (0xFF12, 0xFF17, 0xFF21) and
\* the output level of channel 3 (0xFF1C).
ProgrammedRegisters == <<<<65296, 1>>, <<65298, 241>>, <<65303, 33>>, <<65313, 49>>, <<65308, 32>>>>

\* The writes explored: each trigger register with and without the length
\* enable bit, a channel-1 write without the trigger bit, and new values of an
\* envelope register and of the channel-3 output level.
SoundWrites ==
    ({65300, 65305, 65310, 65315} \X {128, 192})
        \cup {<<65300, 0>>, <<65298, 82>>, <<65308, 64>>}

RECURSIVE APUWriteAll(_, _)
APUWriteAll(a, writes) ==
    IF writes = <<>> THEN a
    ELSE APUWriteAll(APUWrite(a, Head(writes)[1], Head(writes)[2]), Tail(writes))

ApuInit ==
    /\ gb = [NewGameboy(Rom(RomLen, 0, EngineHeader), [Sound |-> TRUE, CGBMode |-> FALSE])
                EXCEPT !.Sound = APUWriteAll(@, ProgrammedRegisters)]
    /\ gb2 = NoGameboy
    /\ upd = NoUpdate
    /\ audio = NoAudio
    /\ ed = NoEditor
    /\ cart = ZeroCart
    /\ cart2 = ZeroCart
    /\ saveData = NoData
    /\ panicked = NoPanic
    /\ op = Op("start", 0, 0)
    /\ ret = 0
    /\ scn = NoScn
    /\ budget = MaxApuOps

\* gb.Sound.Write(address, value)
SoundWriteAct ==
    /\ budget > 0
    /\ \E w \in SoundWrites :
        /\ gb' = [gb EXCEPT !.Sound = APUWrite(@, w[1], w[2])]
        /\ op' = Op("APU.Write", w[1], w[2])
    /\ budget' = budget - 1
    /\ UNCHANGED <<cartVars, audio, ed, panicked, ret, gb2, upd>>

\* one pass of the buffer loop of APU.play: a sample of each channel
PlaySampleAct ==
    /\ budget > 0
    /\ gb.Options.Sound
    /\ gb' = [gb EXCEPT !.Sound.Channel1 = Sample(@),
                        !.Sound.Channel2 = Sample(@),
                        !.Sound.Channel3 = Sample(@),
                        !.Sound.Channel4 = Sample(@)]
    /\ op' = Op("Sample", 0, 0)
    /\ budget' = budget - 1
    /\ UNCHANGED <<cartVars, audio, ed, panicked, ret, gb2, upd>>

ApuNext == SoundWriteAct \/ PlaySampleAct

SpecApu == ApuInit /\ [][ApuNext]_vars

-----------------------------------------------------------------------------
(* Sound: the engine thread and the audio producers of the replay window   *)

\* longest sequence of calls and ticks explored, and the most producers
MaxAudioOps == 4
MaxPlayers == 2

\* The register writes the replayed game makes: the envelope and the trigger
\* of channel 1, the trigger of channel 2.
AudioWrites == {<<65298, 241>>, <<65300, 128>>, <<65305, 128>>}

\* The channel whose state APU.Write(address, ...) reads and writes.
RegisterChannel(address) ==
    CASE address \in 65296..65300 -> 1
      [] address \in 65301..65305 -> 2
      [] address \in 65306..65311 -> 3
      [] address \in 65312..65315 -> 4
      [] OTHER -> 0

channelAt(a, k) ==
    CASE k = 1 -> a.Channel1 [] k = 2 -> a.Channel2 [] k = 3 -> a.Channel3 [] OTHER -> a.Channel4

withChannel(a, k, chn) ==
    CASE k = 1 -> [a EXCEPT !.Channel1 = chn] [] k = 2 -> [a EXCEPT !.Channel2 = chn]
      [] k = 3 -> [a EXCEPT !.Channel3 = chn] [] OTHER -> [a EXCEPT !.Channel4 = chn]

\* a.Init(sound) on an APU in use: the waveform RAM and the channels are
\* made anew, the registers stay.
SoundInit(a) ==
    [a EXCEPT !.WaveformRam = APUInit.WaveformRam,
              !.Channel1 = NewChannel, !.Channel2 = NewChannel,
              !.Channel3 = NewChannel, !.Channel4 = NewChannel]

\* A producer waiting for its next tick.
Waiting == [chan |-> 0, seen |-> NewChannel]

\* var emulatorGameboy Gameboy, before the first replay frame is prepared
AudioInit ==
    /\ gb = NewGameboy(Rom(RomLen, 0, EngineHeader), [Sound |-> FALSE, CGBMode |-> FALSE])
    /\ gb2 = NoGameboy
    /\ upd = NoUpdate
    /\ audio = NoAudio
    /\ ed = NoEditor
    /\ cart = ZeroCart
    /\ cart2 = ZeroCart
    /\ saveData = NoData
    /\ panicked = NoPanic
    /\ op = Op("start", 0, 0)
    /\ ret = 0
    /\ scn = NoScn
    /\ budget = MaxAudioOps

\* initReplayFrame: emulatorGameboy.Sound.Init(!*mute), which starts one more
\* goroutine running a.play unless the sound is muted.  Nothing stops the
\* goroutines started earlier.
InitReplayFrameAct ==
    /\ budget > 0
    /\ audio.engine = 0
    /\ \E mute \in BOOLEAN :
        /\ ~mute => Len(audio.players) < MaxPlayers
        /\ audio' = IF mute THEN audio
                    ELSE [audio EXCEPT !.players = Append(@, Waiting)]
        /\ op' = Op("initReplayFrame", 0, BoolToBit(mute))
    /\ gb' = [gb EXCEPT !.Sound = SoundInit(@)]
    /\ budget' = budget - 1
    /\ UNCHANGED <<cartVars, ed, panicked, ret, gb2, upd>>

\* The engine thread enters APU.Write(address, value): the register is stored.
EngineWriteBeginAct ==
    /\ budget > 0
    /\ audio.engine = 0
    /\ \E w \in AudioWrites :
        /\ gb' = [gb EXCEPT !.Sound.Memory = ArrPut(@, w[1] - 65280, w[2])]
        /\ audio' = [audio EXCEPT !.engine = RegisterChannel(w[1]), !.write = w]
        /\ op' = Op("APU.Write", w[1], w[2])
    /\ budget' = budget - 1
    /\ UNCHANGED <<cartVars, ed, panicked, ret, gb2, upd>>

\* The engine thread updates the channel and leaves APU.Write.
EngineWriteEndAct ==
    /\ audio.engine # 0
    /\ gb' = [gb EXCEPT !.Sound = APUWrite(@, audio.write[1], audio.write[2])]
    /\ audio' = [audio EXCEPT !.engine = 0]
    /\ UNCHANGED <<cartVars, ed, panicked, op, ret, budget, gb2, upd>>

\* A tick of a producer: a.play enters Channel1.Sample and reads the channel.
PlayEnterAct ==
    /\ budget > 0
    /\ \E i \in DOMAIN audio.players :
        /\ audio.players[i].chan = 0
        /\ audio' = [audio EXCEPT !.players[i] = [chan |-> 1, seen |-> gb.Sound.Channel1]]
    /\ budget' = budget - 1
    /\ UNCHANGED <<cartVars, ed, panicked, op, ret, gb, gb2, upd>>

\* The producer stores the sampled channel and goes on to the next channel.
\* Nothing orders the call with the engine thread or with another producer:
\* the fields stored are computed from the channel as read on entry or as it
\* is now.
PlayStepAct ==
    \E i \in DOMAIN audio.players :
        LET k == audio.players[i].chan
        IN /\ k # 0
           /\ \E chn \in {Sample(audio.players[i].seen), Sample(channelAt(gb.Sound, k))} :
                gb' = [gb EXCEPT !.Sound = withChannel(@, k, chn)]
           /\ audio' = [audio EXCEPT !.players[i] =
                            IF k = 4 THEN Waiting
                            ELSE [chan |-> k + 1, seen |-> channelAt(gb'.Sound, k + 1)]]
           /\ UNCHANGED <<cartVars, ed, panicked, op, ret, budget, gb2, upd>>

AudioNext ==
    \/ InitReplayFrameAct
    \/ EngineWriteBeginAct
    \/ EngineWriteEndAct
    \/ PlayEnterAct
    \/ PlayStepAct

SpecAudio == AudioInit /\ [][AudioNext]_vars

-----------------------------------------------------------------------------
(* The editor: branches of inputs, key frames and the frame cache          *)

keyFrameInterval == 100

frameCacheSize == 500

Min(a, b) == IF a < b THEN a ELSE b

Max(a, b) == IF a > b THEN a ELSE b

\* The engine as the editor holds it.  updateGameboy presses or releases
\* every button and calls Update, and Update is a function of the engine and
\* the buttons held: an engine value is told apart by the number of frames it
\* has run, the input mask the last frame left (bit b clear while button b is
\* down) and the buttons held in each frame (frames with no button held are
\* not listed).
EditorGameboy == [frames |-> 0, InputMask |-> 255, held |-> {}]

\* The zero value Gameboy{} latestFrameUpTo returns when nothing is cached.
ZeroGameboy == [frames |-> 0, InputMask |-> 0, held |-> {}]

FrameUpdate(g, inputs) ==
    [ frames    |-> g.frames + 1,
      InputMask |-> 255 - inputs,
      held      |-> IF inputs = 0 THEN g.held ELSE g.held \cup {<<g.frames, inputs>>} ]

\* isButtonDown, setButtonDown and toggleButton on an inputState byte
isButtonDown(s, b) == BitIsSet(s, b)

setButtonDown(s, b, down) == IF down THEN SetBit(s, b) ELSE ResetBit(s, b)

toggleButton(s, b) == setButtonDown(s, b, ~isButtonDown(s, b))

\* A branch and the editor after newEditorState and resetForNewGame.
Branch(frameInputs, defaultInputs) ==
    [frameInputs |-> frameInputs, defaultInputs |-> defaultInputs]

NewFrameCache == [frameIndices |-> <<>>, gameboys |-> <<>>, nextIndexToRemove |-> 0]

\* A frameSelection and its start(), end() and count()
Selection(first, last) == [first |-> first, last |-> last]

selStart(sel) == Min(sel.first, sel.last)

selEnd(sel) == Max(sel.first, sel.last) + 1

selCount(sel) == Max(sel.first, sel.last) - Min(sel.first, sel.last) + 1

\* inputAction{}: no last action
NoAction == [valid |-> FALSE, frameIndex |-> 0, button |-> 0, down |-> FALSE, count |-> 0]

\* The ROM loaded when the editor starts (getRom), as its bytes.
StartRom == <<7>>

\* scaleFactor is kept as the bits of its float32 value, the form it has in a
\* session file; this is 1.0.
ScaleOne == 1065353216

NewEditor ==
    [ leftMostFrame      |-> 0,
      scaleFactor        |-> ScaleOne,
      globalROM          |-> StartRom,
      branches           |-> <<Branch(<<>>, 0)>>,
      branchIndex        |-> 0,
      keyFrameStates     |-> <<>>,
      frameCache         |-> NewFrameCache,
      activeSelection    |-> Selection(0, 0),
      dragStartSelection |-> Selection(0, 0),
      dragStartInputs    |-> <<>>,
      draggingFrameIndex |-> -1,
      lastAction         |-> NoAction ]

\* s.branch(); slices are indexed from 0 in the code and from 1 here.
branch(s) == s.branches[s.branchIndex + 1]

\* s.createInputsUpTo(frameIndex)
createInputsUpTo(s, frameIndex) ==
    LET b == branch(s)
        n == Len(b.frameInputs)
    IN IF frameIndex < n THEN s
       ELSE [s EXCEPT !.branches[s.branchIndex + 1].frameInputs =
                b.frameInputs \o [i \in 1..(frameIndex + 1 - n) |-> b.defaultInputs]]

\* s.inputsAt(frameIndex): the inputs, after createInputsUpTo
inputsAt(s, frameIndex) == branch(createInputsUpTo(s, frameIndex)).frameInputs[frameIndex + 1]

\* c.removeFramesStartingAt(frameIndex): the entries of earlier frames move
\* to the front, in their order.
removeFramesStartingAt(c, frameIndex) ==
    LET entries == [i \in 1..Len(c.frameIndices) |-> <<c.frameIndices[i], c.gameboys[i]>>]
        kept == SelectSeq(entries, LAMBDA e : e[1] < frameIndex)
    IN [c EXCEPT !.frameIndices = [i \in 1..Len(kept) |-> kept[i][1]],
                 !.gameboys = [i \in 1..Len(kept) |-> kept[i][2]]]

\* The loop of latestFrameUpTo over positions lo..hi of frameIndices: the
\* position of the greatest frame index <= frameIndex, the first of them if
\* it occurs more than once (haveIndex > bestFrameIndex is strict), 0 for
\* none.  The range is halved so that the evaluation stays shallow.
RECURSIVE bestIndexIn(_, _, _, _)
bestIndexIn(frameIndices, frameIndex, lo, hi) ==
    IF lo > hi THEN 0
    ELSE IF lo = hi THEN (IF frameIndices[lo] <= frameIndex THEN lo ELSE 0)
    ELSE LET mid == (lo + hi) \div 2
             left == bestIndexIn(frameIndices, frameIndex, lo, mid)
             right == bestIndexIn(frameIndices, frameIndex, mid + 1, hi)
         IN IF left = 0 THEN right
            ELSE IF right = 0 THEN left
            ELSE IF frameIndices[right] > frameIndices[left] THEN right ELSE left

\* c.latestFrameUpTo(frameIndex): the engine and its frame, -1 for none
latestFrameUpTo(c, frameIndex) ==
    LET best == bestIndexIn(c.frameIndices, frameIndex, 1, Len(c.frameIndices))
    IN IF best = 0 THEN [gb |-> ZeroGameboy, index |-> -1]
       ELSE [gb |-> c.gameboys[best], index |-> c.frameIndices[best]]

\* c.set(frameIndex, gb) without the search for the frame's entry: a frame
\* already cached gets a second entry.
cacheSet_noSearch(c, frameIndex, g) ==
    IF Len(c.gameboys) < frameCacheSize
    THEN [c EXCEPT !.frameIndices = Append(@, frameIndex),
                   !.gameboys = Append(@, g)]
    ELSE [c EXCEPT !.frameIndices[c.nextIndexToRemove + 1] = frameIndex,
                   !.gameboys[c.nextIndexToRemove + 1] = g,
                   !.nextIndexToRemove = (c.nextIndexToRemove + 1) % frameCacheSize]

\* c.set(frameIndex, gb)
cacheSet(c, frameIndex, g) ==
    LET at == {i \in 1..Len(c.frameIndices) : c.frameIndices[i] = frameIndex}
    IN IF at # {}
       THEN [c EXCEPT !.gameboys[CHOOSE i \in at : \A j \in at : i <= j] = g]
       ELSE IF Len(c.gameboys) < frameCacheSize
       THEN [c EXCEPT !.frameIndices = Append(@, frameIndex),
                      !.gameboys = Append(@, g)]
       ELSE [c EXCEPT !.frameIndices[c.nextIndexToRemove + 1] = frameIndex,
                      !.gameboys[c.nextIndexToRemove + 1] = g,
                      !.nextIndexToRemove = (c.nextIndexToRemove + 1) % frameCacheSize]

\* s.updateGameboy(&gb, frameIndex): the editor and the engine afterwards
updateGameboy(s, g, frameIndex) ==
    [s |-> createInputsUpTo(s, frameIndex), gb |-> FrameUpdate(g, inputsAt(s, frameIndex))]

\* for i := range count { s.updateGameboy(&gb, frameIndex+i) }, as the key
\* frame loop and checkFrames run it.  The loop is evaluated in two halves; the
\* second half starts from the engine the first half has produced (the test
\* on its frame count, which every update raises, has it computed first).
RECURSIVE replayFrames(_, _, _, _)
replayFrames(s, g, frameIndex, count) ==
    IF count <= 0 THEN [s |-> s, gb |-> g]
    ELSE IF count = 1 THEN updateGameboy(s, g, frameIndex)
    ELSE LET half == count \div 2
             r == replayFrames(s, g, frameIndex, half)
         IN IF r.gb.frames > g.frames
            THEN replayFrames(r.s, r.gb, frameIndex + half, count - half)
            ELSE r

\* for keyFrameIndex >= len(s.keyFrameStates) { ... }
RECURSIVE createKeyFrames(_, _)
createKeyFrames(s, keyFrameIndex) ==
    IF keyFrameIndex < Len(s.keyFrameStates) THEN s
    ELSE LET last == Len(s.keyFrameStates) - 1
             u == IF last = -1 THEN updateGameboy(s, EditorGameboy, 0)
                  ELSE replayFrames(s, s.keyFrameStates[last + 1],
                                    last * keyFrameInterval + 1, keyFrameInterval)
         IN createKeyFrames([u.s EXCEPT !.keyFrameStates = Append(@, u.gb)], keyFrameIndex)

\* One pass of the loop for currentIndex < frameIndex { ... }: the next frame
\* is emulated and cached, and appended to the key frames if it is the next
\* key frame.
emulateFrame(s, g, currentIndex) ==
    LET next == currentIndex + 1
        u == updateGameboy(s, g, next)
        s1 == [u.s EXCEPT !.frameCache = cacheSet(@, next, u.gb)]
    IN [s |-> IF next % keyFrameInterval = 0
                 /\ next \div keyFrameInterval = Len(s1.keyFrameStates)
              THEN [s1 EXCEPT !.keyFrameStates = Append(@, u.gb)] ELSE s1,
        gb |-> u.gb]

\* for currentIndex < frameIndex { ... }, evaluated in two halves like
\* replayFrames.
RECURSIVE emulateTo(_, _, _, _)
emulateTo(s, g, currentIndex, frameIndex) ==
    IF currentIndex >= frameIndex THEN [s |-> s, gb |-> g]
    ELSE IF currentIndex + 1 = frameIndex THEN emulateFrame(s, g, currentIndex)
    ELSE LET mid == currentIndex + (frameIndex - currentIndex) \div 2
             r == emulateTo(s, g, currentIndex, mid)
         IN IF r.gb.frames > g.frames
            THEN emulateTo(r.s, r.gb, mid, frameIndex)
            ELSE r

\* s.generateFrame(frameIndex): the editor afterwards and the engine returned
generateFrame(s, frameIndex) ==
    LET latestKeyFrameIndex == Min(frameIndex \div keyFrameInterval, Len(s.keyFrameStates) - 1)
        latestKeyFrame == latestKeyFrameIndex * keyFrameInterval
        hit == latestFrameUpTo(s.frameCache, frameIndex)
    IN IF hit.index # -1 /\ hit.index >= latestKeyFrame
       THEN emulateTo(s, hit.gb, hit.index, frameIndex)
       ELSE LET keyFrameIndex == frameIndex \div keyFrameInterval
                s1 == createKeyFrames(s, keyFrameIndex)
                g == s1.keyFrameStates[keyFrameIndex + 1]
                currentIndex == keyFrameIndex * keyFrameInterval
                s2 == [s1 EXCEPT !.frameCache = cacheSet(@, currentIndex, g)]
            IN emulateTo(s2, g, currentIndex, frameIndex)

\* s.setDirtyFrame(frameIndex) that rounds the number of key frames kept down.
setDirtyFrame_floor(s, frameIndex) ==
    LET keep == frameIndex \div keyFrameInterval
        s1 == IF keep < Len(s.keyFrameStates)
              THEN [s EXCEPT !.keyFrameStates = SubSeq(@, 1, keep)] ELSE s
    IN [s1 EXCEPT !.frameCache = removeFramesStartingAt(@, frameIndex)]

\* s.setDirtyFrame(frameIndex)
setDirtyFrame(s, frameIndex) ==
    LET keep == (frameIndex + keyFrameInterval - 1) \div keyFrameInterval
        s1 == IF keep < Len(s.keyFrameStates)
              THEN [s EXCEPT !.keyFrameStates = SubSeq(@, 1, keep)] ELSE s
    IN [s1 EXCEPT !.frameCache = removeFramesStartingAt(@, frameIndex)]

\* s.setInputsRange(firstFrameIndex, lastFrameIndex, setTo)
setInputsRange(s, firstFrameIndex, lastFrameIndex, setTo) ==
    LET s1 == createInputsUpTo(s, lastFrameIndex)
    IN setDirtyFrame(
         [s1 EXCEPT !.branches[s.branchIndex + 1].frameInputs =
             [i \in 1..Len(@) |->
                 IF firstFrameIndex <= i - 1 /\ i - 1 <= lastFrameIndex THEN setTo ELSE @[i]]],
         firstFrameIndex)

\* s.toggleButton(frameIndex, button)
editorToggleButton(s, frameIndex, button) ==
    LET s1 == createInputsUpTo(s, frameIndex)
    IN setDirtyFrame(
         [s1 EXCEPT !.branches[s.branchIndex + 1].frameInputs[frameIndex + 1] =
             toggleButton(@, button)],
         frameIndex)

\* s.setButtonDown(frameIndex, count, button, down)
editorSetButtonDown(s, frameIndex, count, button, down) ==
    LET s1 == createInputsUpTo(s, frameIndex + count - 1)
    IN setDirtyFrame(
         [s1 EXCEPT !.branches[s.branchIndex + 1].frameInputs =
             [i \in 1..Len(@) |->
                 IF frameIndex <= i - 1 /\ i - 1 < frameIndex + count
                 THEN setButtonDown(@[i], button, down) ELSE @[i]]],
         frameIndex)

\* s.startDraggingFrameInputs(atFrame): the selection and the inputs at the
\* start of a drag.  dragStartFrame = atFrame serves the caller to tell how
\* far the mouse has moved; the offset is an input of dragFrameInputsTo here.
startDraggingFrameInputs(s, atFrame) ==
    [s EXCEPT !.dragStartSelection = s.activeSelection,
              !.dragStartInputs = branch(s).frameInputs]

\* state.dragFrameInputsTo(selectionOffset, lastActiveSelection)
dragFrameInputsTo(s, selectionOffset, lastActiveSelection) ==
    LET affectedFrame == selStart(s.activeSelection)
        active == Selection(Max(0, s.dragStartSelection.first + selectionOffset),
                            Max(0, s.dragStartSelection.last + selectionOffset))
        before == s.dragStartInputs
        dragStart == selStart(s.dragStartSelection)
        dragCount == selCount(s.dragStartSelection)
        dragEnd == dragStart + dragCount - 1
        newStart == selStart(active)
        newEnd == selEnd(active) - 1
        b == branch(s)
        \* copy(branch.frameInputs, state.dragStartInputs), then the default
        \* inputs in the frames made since the drag started
        restored == [i \in 1..Len(b.frameInputs) |->
                        IF i <= Len(before) THEN before[i] ELSE b.defaultInputs]
        s1 == createInputsUpTo(
                [s EXCEPT !.activeSelection = active,
                          !.branches[s.branchIndex + 1].frameInputs = restored],
                Max(dragEnd, newEnd))
        leftFill == IF dragStart > 0 THEN before[dragStart] ELSE 0
        rightFill == IF dragEnd + 1 < Len(before) THEN before[dragEnd + 2] ELSE b.defaultInputs
        moved == [i \in 1..Len(branch(s1).frameInputs) |->
                    IF dragEnd >= i - 1 /\ i - 1 > newEnd THEN rightFill
                    ELSE IF dragStart <= i - 1 /\ i - 1 < newStart THEN leftFill
                    ELSE IF newStart <= i - 1 /\ i - 1 < newStart + dragCount
                    THEN before[dragStart + (i - 1 - newStart) + 1]
                    ELSE branch(s1).frameInputs[i]]
    IN IF active = lastActiveSelection THEN [s EXCEPT !.activeSelection = active]
       ELSE setDirtyFrame(
              [s1 EXCEPT !.branches[s.branchIndex + 1].frameInputs = moved,
                         !.lastAction.valid = FALSE],
              Min(dragStart, Min(newStart, affectedFrame)))

\* renderMenu, "New Branch": a clone of the current branch becomes current
newBranch(s) ==
    [s EXCEPT !.branches = Append(@, branch(s)),
              !.branchIndex = Len(s.branches)]

\* renderMenu, a click on branch i: frames are dirty from the first frame in
\* which the two branches differ, or from the end of the shorter one
switchBranch(s, i) ==
    LET old == branch(s).frameInputs
        new == s.branches[i + 1].frameInputs
        end == Min(Len(old), Len(new))
        differ == {k \in 0..(end - 1) : old[k + 1] # new[k + 1]}
        dirty == IF differ = {} THEN end ELSE CHOOSE k \in differ : \A j \in differ : k <= j
    IN setDirtyFrame([s EXCEPT !.branchIndex = i], dirty)

\* renderMenu, "Delete Branch" (confirmed): the current branch is removed and
\* the one before it becomes current; no frame is marked dirty
deleteBranch(s) ==
    [s EXCEPT !.branches = SubSeq(@, 1, s.branchIndex) \o SubSeq(@, s.branchIndex + 2, Len(@)),
              !.branchIndex = Max(0, s.branchIndex - 1)]

\* checkFrames' wantGB: a new engine run over frames 0..upTo of the current
\* branch (frames not made yet hold the default inputs).
wantGB(s, upTo) == replayFrames(s, EditorGameboy, 0, upTo + 1).gb

\* longest sequence of editor operations explored, and the most branches
MaxEditOps == 4
MaxBranches == 2

\* The frames edited and shown, on both sides of the second key frame, and
\* the buttons and input bytes used.
EditFrames == {0, 1, 100}
ViewFrames == {0, 1, 101}
EditButtons == {0}
EditInputs == {16}
DragOffsets == {-1, 1}

EditorInit ==
    /\ ed = NewEditor
    /\ gb = NoGameboy
    /\ gb2 = NoGameboy
    /\ upd = NoUpdate
    /\ audio = NoAudio
    /\ cart = ZeroCart
    /\ cart2 = ZeroCart
    /\ saveData = NoData
    /\ panicked = NoPanic
    /\ op = Op("start", 0, 0)
    /\ ret = 0
    /\ scn = NoScn
    /\ budget = MaxEditOps

\* An operation of the editor that returns nothing.
Edit(name, address, value, s) ==
    /\ budget > 0
    /\ ed' = s
    /\ op' = Op(name, address, value)
    /\ budget' = budget - 1
    /\ UNCHANGED <<cartVars, audio, panicked, ret, gb, gb2, upd>>

ToggleButtonAct ==
    \E f \in EditFrames, b \in EditButtons :
        Edit("toggleButton", f, b, editorToggleButton(ed, f, b))

SetButtonDownAct ==
    \E f \in EditFrames, b \in EditButtons, down \in BOOLEAN :
        Edit("setButtonDown", f, BoolToBit(down), editorSetButtonDown(ed, f, 2, b, down))

SetInputsRangeAct ==
    \E f \in EditFrames, setTo \in EditInputs :
        Edit("setInputsRange", f, setTo, setInputsRange(ed, f, f + 1, setTo))

\* A click on a frame shown selects it, and the control key pressed then
\* starts a drag of its inputs.
StartDragAct ==
    \E f \in EditFrames :
        /\ f < Len(branch(ed).frameInputs)
        /\ Edit("startDraggingFrameInputs", f, 0,
                startDraggingFrameInputs([ed EXCEPT !.activeSelection = Selection(f, f)], f))

\* The mouse moves by offset frames from where the drag started.
DragAct ==
    \E offset \in DragOffsets :
        /\ selEnd(ed.dragStartSelection) <= Len(ed.dragStartInputs)
        /\ Edit("dragFrameInputsTo", offset, 0, dragFrameInputsTo(ed, offset, ed.activeSelection))

NewBranchAct ==
    /\ Len(ed.branches) < MaxBranches
    /\ Edit("New Branch", 0, 0, newBranch(ed))

SwitchBranchAct ==
    \E i \in 0..(Len(ed.branches) - 1) :
        /\ i # ed.branchIndex
        /\ Edit("switch branch", i, 0, switchBranch(ed, i))

DeleteBranchAct ==
    /\ Len(ed.branches) > 1
    /\ Edit("Delete Branch", ed.branchIndex, 0, deleteBranch(ed))

\* The editor shows frame i: gb := state.generateFrame(i)
GenerateFrameAct ==
    /\ budget > 0
    /\ \E i \in ViewFrames :
        LET r == generateFrame(ed, i)
        IN /\ ed' = r.s
           /\ gb' = r.gb
           /\ op' = Op("generateFrame", i, 0)
    /\ budget' = budget - 1
    /\ UNCHANGED <<cartVars, audio, panicked, ret, gb2, upd>>

EditorNext ==
    \/ ToggleButtonAct
    \/ SetButtonDownAct
    \/ SetInputsRangeAct
    \/ StartDragAct
    \/ DragAct
    \/ NewBranchAct
    \/ SwitchBranchAct
    \/ DeleteBranchAct
    \/ GenerateFrameAct

SpecEditor == EditorInit /\ [][EditorNext]_vars

-----------------------------------------------------------------------------
(* The editor: marking frames dirty                                        *)

\* longest sequence of setDirtyFrame and generateFrame calls explored
MaxDirtyOps == 2

\* The frames the editor has shown before: the first frames, a run across
\* three key frames, and a run longer than the frame cache.
ShownBefore == {<<0>>, <<0, 1, 99>>, <<301>>, <<0, 100, 201, 301>>, <<0, 550>>}

\* The frames marked dirty and the frames shown afterwards.
DirtyFrames == {0, 1, 2, 50, 99, 100, 101, 102, 199, 200, 201, 202, 250, 300, 301, 302, 400}
ShownAfter == {0, 150}

RECURSIVE generateFrames(_, _)
generateFrames(s, frames) ==
    IF frames = <<>> THEN s
    ELSE generateFrames(generateFrame(s, Head(frames)).s, Tail(frames))

DirtyInit ==
    /\ \E frames \in ShownBefore : ed = generateFrames(NewEditor, frames)
    /\ gb = NoGameboy
    /\ gb2 = NoGameboy
    /\ upd = NoUpdate
    /\ audio = NoAudio
    /\ cart = ZeroCart
    /\ cart2 = ZeroCart
    /\ saveData = NoData
    /\ panicked = NoPanic
    /\ op = Op("start", 0, 0)
    /\ ret = 0
    /\ scn = NoScn
    /\ budget = MaxDirtyOps

\* s.setDirtyFrame(f)
SetDirtyFrameAct ==
    \E f \in DirtyFrames : Edit("setDirtyFrame", f, 0, setDirtyFrame(ed, f))

\* s.generateFrame(i), which fills the cache and the key frames again
ShowFrameAct ==
    \E i \in ShownAfter : Edit("generateFrame", i, 0, generateFrame(ed, i).s)

DirtyNext == SetDirtyFrameAct \/ ShowFrameAct

SpecDirty == DirtyInit /\ [][DirtyNext]_vars

-----------------------------------------------------------------------------
(* The editor: sessions (save, open, new speedrun) and its branches         *)

\* The version constants of the session file.  gameboyStateVersion is
\* compared with the number in the file; its value does not matter otherwise.
minSessionFileVersion == 1
sessionFileVersion == 4
gameboyStateVersion == 1

\* The bytes of an engine in a session file (binary.Write of the Gameboy
\* struct has a fixed size).  The engines saved in the files driven hold no
\* button: such an engine is its frame count and its input mask.
GameboyBytes == 2

encodeGameboy(g) == <<g.frames, g.InputMask>>

decodeGameboy(bytes) == [frames |-> bytes[1], InputMask |-> bytes[2], held |-> {}]

\* binary.LittleEndian: a uint32 as four bytes, and back
PutUint32(n) ==
    <<n % 256, (n \div 256) % 256, (n \div 65536) % 256, (n \div 16777216) % 256>>

Uint32(bytes) ==
    bytes[1] + 256 * bytes[2] + 65536 * bytes[3] + 16777216 * bytes[4]

Tail4(bytes) == SubSeq(bytes, 5, Len(bytes))

RECURSIVE Concat(_)
Concat(seqs) == IF seqs = <<>> THEN <<>> ELSE Head(seqs) \o Concat(Tail(seqs))

\* save's s(branch.name), b(defaultInputs), n(len), b(inputs)...; a branch
\* of the model has no name, a one-letter name is written for it
BranchName == <<66>>

saveBranch(version, b) ==
    (IF version >= 3 THEN PutUint32(Len(BranchName)) \o BranchName ELSE <<>>)
    \o <<b.defaultInputs>> \o PutUint32(Len(b.frameInputs)) \o b.frameInputs

\* state.save: the bytes written.  The code writes version 4; the earlier
\* versions are written the way open reads them.
save(version, s) ==
    PutUint32(version)
    \o (IF version >= 2 THEN PutUint32(Len(s.globalROM)) \o s.globalROM ELSE <<>>)
    \o PutUint32(s.leftMostFrame)
    \o PutUint32(s.activeSelection.first)
    \o PutUint32(s.activeSelection.last)
    \o (IF version >= 4 THEN PutUint32(s.scaleFactor) ELSE <<>>)
    \o (IF version >= 3
        THEN PutUint32(s.branchIndex) \o PutUint32(Len(s.branches))
             \o Concat([i \in 1..Len(s.branches) |-> saveBranch(version, s.branches[i])])
        ELSE saveBranch(version, s.branches[1]))
    \o PutUint32(keyFrameInterval)
    \o PutUint32(gameboyStateVersion)
    \o PutUint32(Len(s.keyFrameStates))
    \o Concat([i \in 1..Len(s.keyFrameStates) |-> encodeGameboy(s.keyFrameStates[i])])

\* open's readers.  A reader is the bytes left, the first error met and the
\* value read last; after an error every reader returns zero.
NoErr == "nil"
ShortRead == "short read"
Reader(rest) == [rest |-> rest, loadErr |-> NoErr, val |-> 0]

\* n() and f(): four bytes
readN(r) ==
    IF r.loadErr # NoErr THEN [r EXCEPT !.val = 0]
    ELSE IF Len(r.rest) < 4 THEN [r EXCEPT !.val = 0, !.loadErr = ShortRead]
    ELSE [r EXCEPT !.val = Uint32(r.rest), !.rest = Tail4(r.rest)]

\* b(): one byte
readB(r) ==
    IF r.loadErr # NoErr THEN [r EXCEPT !.val = 0]
    ELSE IF Len(r.rest) < 1 THEN [r EXCEPT !.val = 0, !.loadErr = ShortRead]
    ELSE [r EXCEPT !.val = Head(r.rest), !.rest = Tail(r.rest)]

\* s(): a length and that many bytes
readS(r) ==
    LET l == readN(r)
    IN IF l.loadErr # NoErr THEN [l EXCEPT !.val = <<>>]
       ELSE IF l.val > Len(l.rest) THEN [l EXCEPT !.val = <<>>, !.loadErr = ShortRead]
       ELSE [l EXCEPT !.val = SubSeq(l.rest, 1, l.val),
                      !.rest = SubSeq(l.rest, l.val + 1, Len(l.rest))]

\* v(x) for an x of size bytes: binary.Read fills x or fails and leaves it
readV(r, size) ==
    IF r.loadErr # NoErr THEN [r EXCEPT !.val = <<>>]
    ELSE IF Len(r.rest) < size THEN [r EXCEPT !.val = <<>>, !.loadErr = ShortRead]
    ELSE [r EXCEPT !.val = SubSeq(r.rest, 1, size),
                   !.rest = SubSeq(r.rest, size + 1, Len(r.rest))]

\* for i := range branch.frameInputs { branch.frameInputs[i] = b() }
RECURSIVE readInputs(_, _, _)
readInputs(r, count, acc) ==
    IF count = 0 THEN [r EXCEPT !.val = acc]
    ELSE LET x == readB(r) IN readInputs(x, count - 1, Append(acc, x.val))

\* one branch of the file: its name (versions 3 and 4), default inputs, inputs
readBranch(version, r) ==
    LET nm == IF version >= 3 THEN readS(r) ELSE r
        d  == readB(nm)
        c  == readN(d)
        fi == readInputs(c, c.val, <<>>)
    IN [fi EXCEPT !.val = Branch(fi.val, d.val)]

RECURSIVE readBranches(_, _, _, _)
readBranches(version, r, count, acc) ==
    IF count = 0 THEN [r EXCEPT !.val = acc]
    ELSE LET x == readBranch(version, r)
         IN readBranches(version, x, count - 1, Append(acc, x.val))

RECURSIVE readKeyFrames(_, _, _)
readKeyFrames(r, count, acc) ==
    IF count = 0 THEN [r EXCEPT !.val = acc]
    ELSE LET x == readV(r, GameboyBytes)
         IN readKeyFrames(x, count - 1,
                Append(acc, IF x.loadErr = NoErr THEN decodeGameboy(x.val) ELSE ZeroGameboy))

\* c.clear()
cacheClear(c) == NewFrameCache

\* n() called count times in a row
RECURSIVE readNs(_, _, _)
readNs(r, count, acc) ==
    IF count = 0 THEN [r EXCEPT !.val = acc]
    ELSE LET x == readN(r) IN readNs(x, count - 1, Append(acc, x.val))

\* The tail of open: the branch index is checked, and the editor is assigned
\* only when nothing has failed.  f holds the numbers read, kf the key frames.
openAssign(s, s1, f, branches, kf) ==
    IF ~(0 <= f.branchIndex /\ f.branchIndex < Len(branches))
    THEN [err |-> "invalid branch index", s |-> s1]
    ELSE IF kf.loadErr # NoErr THEN [err |-> kf.loadErr, s |-> s1]
    ELSE [err |-> NoErr,
          s |-> [s1 EXCEPT !.leftMostFrame = f.leftMostFrame,
                           !.activeSelection = Selection(f.first, f.last),
                           !.scaleFactor = f.scaleFactor,
                           !.branchIndex = f.branchIndex,
                           !.branches = branches,
                           !.keyFrameStates = kf.val,
                           !.frameCache = cacheClear(s.frameCache),
                           !.draggingFrameIndex = -1,
                           !.lastAction = NoAction]]

\* haveKeyFrameInterval, haveGameboyStateVersion and, when both are the
\* program's, the key frames
openKeyFrames(s, s1, f, branches, kv) ==
    LET kn == IF kv.val = <<keyFrameInterval, gameboyStateVersion>>
              THEN readN(kv) ELSE [kv EXCEPT !.val = 0]
    IN openAssign(s, s1, f, branches, readKeyFrames(kn, kn.val, <<>>))

openBranches(s, s1, f, br) ==
    openKeyFrames(s, s1, f, br.val, readNs(br, 2, <<>>))

\* leftMostFrame, the selection, the scale factor (version 4), the branch
\* index and the number of branches (versions 3 and 4)
openFields(s, s1, fileVersion, hdr) ==
    LET n == hdr.val
        f == [ leftMostFrame |-> n[1], first |-> n[2], last |-> n[3],
               scaleFactor |-> IF fileVersion >= 4 THEN n[4] ELSE ScaleOne,
               branchIndex |-> IF fileVersion >= 3 THEN n[Len(n) - 1] ELSE 0,
               count |-> IF fileVersion >= 3 THEN n[Len(n)] ELSE 1 ]
    IN openBranches(s, s1, f, readBranches(fileVersion, hdr, f.count, <<>>))

FieldCount(fileVersion) ==
    IF fileVersion >= 4 THEN 6 ELSE IF fileVersion = 3 THEN 5 ELSE 3

\* globalROM = make([]byte, romSize); v(globalROM): the global is assigned
\* here, and a failed read leaves the new slice zero
openRom(s, fileVersion, romSize, rom) ==
    openFields(s,
               [s EXCEPT !.globalROM = IF rom.loadErr = NoErr THEN rom.val
                                       ELSE [i \in 1..romSize |-> 0]],
               fileVersion,
               readNs(rom, FieldCount(fileVersion), <<>>))

openVersion(s, v0) ==
    IF ~(minSessionFileVersion <= v0.val /\ v0.val <= sessionFileVersion)
    THEN [err |-> "unsupported file version", s |-> s]
    ELSE IF v0.val >= 2
    THEN LET rs == readN(v0) IN openRom(s, v0.val, rs.val, readV(rs, rs.val))
    ELSE openFields(s, s, v0.val, readNs(v0, FieldCount(v0.val), <<>>))

\* state.open(path) on the bytes of the file: the error returned and the
\* editor afterwards.
open(s, data) == openVersion(s, readN(Reader(data)))

\* s.resetForNewGame(); branchIndex is not among the fields it resets
resetForNewGame(s) ==
    [s EXCEPT !.leftMostFrame = 0,
              !.activeSelection = Selection(0, 0),
              !.branches = <<Branch(<<>>, 0)>>,
              !.keyFrameStates = <<>>,
              !.frameCache = cacheClear(s.frameCache),
              !.dragStartSelection = Selection(0, 0),
              !.dragStartInputs = <<>>,
              !.draggingFrameIndex = -1,
              !.lastAction = NoAction]

\* s.createNewSpeedrun() with a ROM file chosen and read
createNewSpeedrun(s, rom) == resetForNewGame([s EXCEPT !.globalROM = rom])

\* longest sequence of session and branch operations explored
MaxSessionOps == 3

\* The ROMs a new speedrun is started with.
SessionRoms == {<<7>>, <<8, 9>>}

\* The editor whose session is on disk: two branches, the second one current,
\* and the key frame of frame 0.
SavedEditor ==
    [NewEditor EXCEPT !.globalROM = <<8, 9>>,
                      !.leftMostFrame = 3,
                      !.activeSelection = Selection(3, 4),
                      !.branches = <<Branch(<<0, 16>>, 0), Branch(<<0>>, 1)>>,
                      !.branchIndex = 1,
                      !.keyFrameStates = <<FrameUpdate(EditorGameboy, 0)>>]

\* A file os.ReadFile fails on (no sequence of bytes).
Unreadable == <<-1>>

\* The files opened: the session saved in every version from 0 to 5, the
\* current version cut short at every length, and sessions whose branch
\* index is the number of branches; or no readable file at all.
SessionFiles ==
    {save(v, SavedEditor) : v \in 0..(sessionFileVersion + 1)}
    \cup {SubSeq(save(sessionFileVersion, SavedEditor), 1, k) :
            k \in 0..Len(save(sessionFileVersion, SavedEditor))}
    \cup {save(v, [SavedEditor EXCEPT !.branchIndex = 2]) : v \in {3, 4}}
    \cup {Unreadable}

SessionInit ==
    /\ ed = NewEditor
    /\ gb = NoGameboy
    /\ gb2 = NoGameboy
    /\ upd = NoUpdate
    /\ audio = NoAudio
    /\ cart = ZeroCart
    /\ cart2 = ZeroCart
    /\ saveData = NoData
    /\ panicked = NoPanic
    /\ op = Op("start", 0, 0)
    /\ ret = 0
    /\ scn = NoScn
    /\ budget = MaxSessionOps

\* The menu is drawn and clicked only while the editor runs, and its branch
\* buttons call state.branch() or index branches with branchIndex.
MenuUp == panicked = NoPanic /\ ed.branchIndex < Len(ed.branches)

MenuNewBranchAct == MenuUp /\ NewBranchAct

MenuSwitchBranchAct == MenuUp /\ SwitchBranchAct

MenuDeleteBranchAct == MenuUp /\ DeleteBranchAct

\* The error open returns, as a number: 0 is nil.
ErrCode(err) ==
    CASE err = NoErr -> 0
      [] err = "read error" -> 1
      [] err = "unsupported file version" -> 2
      [] err = ShortRead -> 3
      [] err = "invalid branch index" -> 4

\* err := state.open(path) on a file of the given length (-1: unreadable)
OpenAct ==
    /\ panicked = NoPanic /\ budget > 0
    /\ \E data \in SessionFiles :
        LET r == IF data = Unreadable THEN [err |-> "read error", s |-> ed]
                 ELSE open(ed, data)
        IN /\ ed' = r.s
           /\ ret' = ErrCode(r.err)
           /\ op' = Op("open", IF data = Unreadable THEN -1 ELSE Len(data), 0)
    /\ budget' = budget - 1
    /\ UNCHANGED <<cartVars, audio, panicked, gb, gb2, upd>>

CreateNewSpeedrunAct ==
    /\ panicked = NoPanic
    /\ \E rom \in SessionRoms :
        Edit("createNewSpeedrun", Len(rom), 0, createNewSpeedrun(ed, rom))

\* A frame of the editor is drawn: the inputs of the frames shown are read
\* through state.branch(), which indexes branches with branchIndex.
RenderAct ==
    /\ panicked = NoPanic /\ budget > 0
    /\ panicked' = IF ed.branchIndex < Len(ed.branches) THEN NoPanic ELSE IndexPanic
    /\ op' = Op("render", 0, 0)
    /\ budget' = budget - 1
    /\ UNCHANGED <<cartVars, audio, ed, ret, gb, gb2, upd>>

SessionNext ==
    \/ MenuNewBranchAct
    \/ MenuSwitchBranchAct
    \/ MenuDeleteBranchAct
    \/ OpenAct
    \/ CreateNewSpeedrunAct
    \/ RenderAct

SpecSession == SessionInit /\ [][SessionNext]_vars

-----------------------------------------------------------------------------
(* The editor: moving through time (executeEditorFrame)                     *)

\* longest sequence of editor frames with an input explored
MaxScrollOps == 3

\* The frames the window shows in a row and in a column
\* (inputMenuX / frameWidth and windowH / frameHeight).
FrameCountX == 2
FrameCountY == 2

\* The repeat counts typed before a key.
RepeatCounts == {1, 3}

\* What the window reports in one frame: the key pressed ("" for none) with
\* Shift up or down, the repeat count in the info text and whether a number
\* is there, the wheel, and the frame slot under the mouse (-1 outside the
\* frames) with the right button up or down.
NoEvent ==
    [ key |-> "", shiftDown |-> FALSE, repeatCount |-> 1, repeatCountValid |-> FALSE,
      scrollY |-> 0, screenIndex |-> -1, rightMouseButtonDown |-> FALSE ]

ArrowKeys == {"Left", "Right", "Up", "Down", "PageUp", "PageDown"}

ScrollEvents ==
    {[NoEvent EXCEPT !.key = k, !.shiftDown = sh, !.repeatCount = r,
                     !.repeatCountValid = (r # 1)] :
        k \in ArrowKeys \cup {"G", "Home", "End"}, sh \in BOOLEAN, r \in RepeatCounts}
    \cup {[NoEvent EXCEPT !.scrollY = y, !.shiftDown = sh] : y \in {-1, 1}, sh \in BOOLEAN}
    \cup {[NoEvent EXCEPT !.screenIndex = i, !.rightMouseButtonDown = d] :
            i \in -1..(FrameCountX * FrameCountY - 1), d \in BOOLEAN}

\* frameDelta of the arrow and page keys
keyFrameDelta(e) ==
    CASE e.key = "Left" -> -e.repeatCount
      [] e.key = "Right" -> e.repeatCount
      [] e.key = "Up" -> -FrameCountX * e.repeatCount
      [] e.key = "Down" -> FrameCountX * e.repeatCount
      [] e.key = "PageUp" -> -FrameCountX * FrameCountY * e.repeatCount
      [] e.key = "PageDown" -> FrameCountX * FrameCountY * e.repeatCount
      [] OTHER -> 0

\* the mouse wheel, without Control
wheelScroll(s, e) ==
    IF e.scrollY = 0 THEN s
    ELSE LET ticks == -e.scrollY
             delta == IF e.shiftDown THEN ticks ELSE ticks * FrameCountX
         IN [s EXCEPT !.leftMostFrame = Max(0, s.leftMostFrame + delta)]

\* if frameDelta != 0 { ... } with Shift or with no modifier
applyFrameDelta(s, e, frameDelta) ==
    IF frameDelta = 0 THEN s
    ELSE IF e.shiftDown THEN
        LET last == Max(0, s.activeSelection.last + frameDelta)
            l1 == IF last < s.leftMostFrame
                  THEN s.leftMostFrame + frameDelta ELSE s.leftMostFrame
            l2 == IF last >= l1 + FrameCountX * FrameCountY THEN l1 + frameDelta ELSE l1
        IN [s EXCEPT !.activeSelection.last = last, !.leftMostFrame = l2]
    ELSE [s EXCEPT !.leftMostFrame = Max(0, s.leftMostFrame + frameDelta)]

\* the Home and End keys
homeEnd(s, e) ==
    IF e.key = "Home" THEN
        IF e.shiftDown THEN [s EXCEPT !.activeSelection.last = 0]
        ELSE [s EXCEPT !.leftMostFrame = 0]
    ELSE IF e.key = "End" THEN
        IF e.shiftDown
        THEN [s EXCEPT !.activeSelection.last = Len(branch(s).frameInputs) - 1]
        ELSE [s EXCEPT !.leftMostFrame =
                Len(branch(s).frameInputs) - FrameCountX * FrameCountY - 1]
    ELSE s

\* the right mouse button drags the frames shown
rightDrag(s, e) ==
    LET frameUnderMouse == IF e.screenIndex = -1 THEN -1
                           ELSE s.leftMostFrame + e.screenIndex
        s1 == IF e.rightMouseButtonDown /\ frameUnderMouse # -1
              THEN IF s.draggingFrameIndex = -1
                   THEN [s EXCEPT !.draggingFrameIndex = frameUnderMouse]
                   ELSE [s EXCEPT !.leftMostFrame = s.draggingFrameIndex - e.screenIndex]
              ELSE s
    IN IF ~e.rightMouseButtonDown THEN [s1 EXCEPT !.draggingFrameIndex = -1] ELSE s1

\* The part of executeEditorFrame that moves through time, in the order of
\* the code: wheel, go to frame, arrow keys, Home and End, right mouse drag.
moveThroughTime(s, e) ==
    LET s1 == wheelScroll(s, e)
        frameDelta == IF e.repeatCountValid /\ e.key = "G"
                      THEN -s1.leftMostFrame + e.repeatCount
                      ELSE keyFrameDelta(e)
    IN rightDrag(homeEnd(applyFrameDelta(s1, e, frameDelta), e), e)

\* The frames shown are generated when the editor is drawn: the inputs of the
\* frames up to the last one shown exist afterwards.
lastVisibleFrame(s) == s.leftMostFrame + FrameCountX * FrameCountY - 1

ScrollInit ==
    /\ ed = createInputsUpTo(NewEditor, lastVisibleFrame(NewEditor))
    /\ gb = NoGameboy
    /\ gb2 = NoGameboy
    /\ upd = NoUpdate
    /\ audio = NoAudio
    /\ cart = ZeroCart
    /\ cart2 = ZeroCart
    /\ saveData = NoData
    /\ panicked = NoPanic
    /\ op = Op("start", 0, 0)
    /\ ret = 0
    /\ scn = NoScn
    /\ budget = MaxScrollOps

\* One frame of the editor with input e: the position moves, and the frames
\* shown are drawn.  Drawing reads inputsAt(leftMostFrame) and on, which
\* indexes the inputs of the branch: a negative frame is out of range.
EditorFrame(name, e) ==
    /\ panicked = NoPanic /\ budget > 0
    /\ LET s == moveThroughTime(ed, e)
       IN IF s.leftMostFrame < 0
          THEN ed' = s /\ panicked' = IndexPanic
          ELSE ed' = createInputsUpTo(s, lastVisibleFrame(s)) /\ panicked' = NoPanic
    /\ op' = Op(name, IF e.key = "" THEN e.scrollY ELSE keyFrameDelta(e), e.screenIndex)
    /\ budget' = budget - 1
    /\ UNCHANGED <<cartVars, audio, ret, gb, gb2, upd>>

WheelAct == \E e \in ScrollEvents : e.scrollY # 0 /\ EditorFrame("wheel", e)

ArrowKeyAct == \E e \in ScrollEvents : e.key \in ArrowKeys /\ EditorFrame(e.key, e)

GoToFrameAct == \E e \in ScrollEvents : e.key = "G" /\ EditorFrame("G", e)

HomeEndAct == \E e \in ScrollEvents : e.key \in {"Home", "End"} /\ EditorFrame(e.key, e)

MouseAct ==
    \E e \in ScrollEvents : e.key = "" /\ e.scrollY = 0 /\ EditorFrame("mouse", e)

ScrollNext == WheelAct \/ ArrowKeyAct \/ GoToFrameAct \/ HomeEndAct \/ MouseAct

SpecScroll == ScrollInit /\ [][ScrollNext]_vars

-----------------------------------------------------------------------------
(* The editor: button keys and the last input action                        *)

\* longest sequence of clicks and keys explored
MaxActionOps == 3

\* The frames clicked, the repeat counts typed and the characters typed in
\* one frame ('p' stands for '+' and 'm' for '-': the code treats them alike).
ClickFrames == {0, 1, 2}
ActionRepeatCounts == {1, 2}
TypedCharacters == {{"+"}, {"P"}, {"-"}, {"M"}, {"-", "M"}}

\* buttonWasPressed(button) with the repeat count typed before it
buttonWasPressed(s, button, repeatCount, shiftDown) ==
    LET firstFrameIndex == selStart(s.activeSelection)
        down == ~isButtonDown(inputsAt(s, firstFrameIndex), button)
        singleFrameSelected == s.activeSelection.first = s.activeSelection.last
        inputs == branch(s).frameInputs
        canToggle == \A i \in (firstFrameIndex + 2)..(Len(inputs) - 1) :
                        isButtonDown(inputs[i + 1], button) = isButtonDown(inputs[i], button)
    IN IF shiftDown /\ singleFrameSelected THEN
           IF canToggle
           THEN LET s1 == editorSetButtonDown(s, firstFrameIndex,
                                              Len(inputs) - firstFrameIndex, button, down)
                IN [s1 EXCEPT !.branches[s.branchIndex + 1].defaultInputs =
                                setButtonDown(@, button, down)]
           ELSE s
       ELSE IF singleFrameSelected THEN
           [editorSetButtonDown(s, s.activeSelection.first, repeatCount, button, down)
               EXCEPT !.lastAction = [valid |-> TRUE, frameIndex |-> s.activeSelection.first,
                                      button |-> button, down |-> down, count |-> repeatCount],
                      !.activeSelection = Selection(s.activeSelection.first,
                                                    s.activeSelection.first + repeatCount - 1)]
       ELSE
           [editorSetButtonDown(s, firstFrameIndex, selCount(s.activeSelection), button, down)
               EXCEPT !.lastAction = [valid |-> TRUE, frameIndex |-> firstFrameIndex,
                                      button |-> button, down |-> down,
                                      count |-> selCount(s.activeSelection)]]

\* newAction of executeEditorFrame: the last action after the characters
\* typed, '+' and 'p', then 'P', then '-' and 'm', then 'M'
newActionOf(lastAction, chars, repeatCount) ==
    LET a1 == IF "+" \in chars
              THEN [lastAction EXCEPT !.count = @ + repeatCount] ELSE lastAction
        a2 == IF "P" \in chars
              THEN [a1 EXCEPT !.count = @ + repeatCount, !.frameIndex = @ - repeatCount]
              ELSE a1
        a3 == IF "-" \in chars
              THEN [a2 EXCEPT !.count = Max(1, @ - repeatCount)] ELSE a2
        delta == Min(repeatCount, lastAction.count - 1)
    IN IF "M" \in chars
       THEN [a3 EXCEPT !.frameIndex = @ + delta, !.count = @ - delta] ELSE a3

\* The last action is undone and the new one applied.
applyNewAction(s, newAction) ==
    LET undone == editorSetButtonDown(s, s.lastAction.frameIndex, s.lastAction.count,
                                      s.lastAction.button, ~s.lastAction.down)
    IN [editorSetButtonDown(undone, newAction.frameIndex, newAction.count,
                            newAction.button, newAction.down)
           EXCEPT !.activeSelection = Selection(newAction.frameIndex,
                                                newAction.frameIndex + newAction.count - 1),
                  !.lastAction = newAction]

\* The second setButtonDown call indexes frameInputs[frameIndex+i] for i in
\* range count (nothing for a count below 1).
setButtonDownPanics(frameIndex, count) == count >= 1 /\ frameIndex < 0

ActionInit ==
    /\ ed = createInputsUpTo(NewEditor, lastVisibleFrame(NewEditor))
    /\ gb = NoGameboy
    /\ gb2 = NoGameboy
    /\ upd = NoUpdate
    /\ audio = NoAudio
    /\ cart = ZeroCart
    /\ cart2 = ZeroCart
    /\ saveData = NoData
    /\ panicked = NoPanic
    /\ op = Op("start", 0, 0)
    /\ ret = 0
    /\ scn = NoScn
    /\ budget = MaxActionOps

\* A click on a frame selects it; with Shift it ends the selection there.
ClickFrameAct ==
    /\ panicked = NoPanic
    /\ \E f \in ClickFrames, shiftDown \in BOOLEAN :
        Edit("click", f, BoolToBit(shiftDown),
             IF shiftDown THEN [ed EXCEPT !.activeSelection.last = f]
             ELSE [ed EXCEPT !.activeSelection = Selection(f, f)])

ButtonKeyAct ==
    /\ panicked = NoPanic
    /\ \E b \in EditButtons, r \in ActionRepeatCounts, shiftDown \in BOOLEAN :
        Edit("button", r, BoolToBit(shiftDown), buttonWasPressed(ed, b, r, shiftDown))

\* Characters are typed while there is a last action; op holds the frame
\* index and the count setButtonDown is called with for the new action.
AdjustActionAct ==
    /\ panicked = NoPanic /\ budget > 0
    /\ ed.lastAction.valid
    /\ \E chars \in TypedCharacters, r \in ActionRepeatCounts :
        LET newAction == newActionOf(ed.lastAction, chars, r)
        IN /\ newAction # ed.lastAction
           /\ op' = Op("adjust", newAction.frameIndex, newAction.count)
           /\ IF setButtonDownPanics(newAction.frameIndex, newAction.count)
              THEN /\ panicked' = IndexPanic
                   /\ ed' = editorSetButtonDown(ed, ed.lastAction.frameIndex,
                                ed.lastAction.count, ed.lastAction.button,
                                ~ed.lastAction.down)
              ELSE /\ panicked' = NoPanic
                   /\ ed' = applyNewAction(ed, newAction)
    /\ budget' = budget - 1
    /\ UNCHANGED <<cartVars, audio, ret, gb, gb2, upd>>

ActionNext == ClickFrameAct \/ ButtonKeyAct \/ AdjustActionAct

SpecAction == ActionInit /\ [][ActionNext]_vars

-----------------------------------------------------------------------------
(* The editor: dragging frame inputs                                        *)

\* longest sequence of drag moves explored
MaxDragOps == 2

\* The inputs of the branch when the drag starts (told apart by their
\* values), the frames selected and the offsets dragged to.
DragInputs == <<1, 2, 3, 4>>
DragFrames == 0..(Len(DragInputs) - 1)
DragMoves == -3..3

\* The control key goes down with frames first..last selected:
\* state.startDraggingFrameInputs(state.activeSelection.first)
DragInit ==
    /\ \E first \in DragFrames, last \in DragFrames :
        LET s == [NewEditor EXCEPT !.branches = <<Branch(DragInputs, 0)>>,
                                   !.activeSelection = Selection(first, last)]
        IN ed = startDraggingFrameInputs(s, first)
    /\ gb = NoGameboy
    /\ gb2 = NoGameboy
    /\ upd = NoUpdate
    /\ audio = NoAudio
    /\ cart = ZeroCart
    /\ cart2 = ZeroCart
    /\ saveData = NoData
    /\ panicked = NoPanic
    /\ op = Op("startDraggingFrameInputs", 0, 0)
    /\ ret = 0
    /\ scn = NoScn
    /\ budget = MaxDragOps

\* The mouse, or Ctrl with an arrow key, moves the selection to offset frames
\* from where the drag started.
DragMoveAct ==
    \E offset \in DragMoves :
        Edit("dragFrameInputsTo", offset, 0, dragFrameInputsTo(ed, offset, ed.activeSelection))

DragNext == DragMoveAct

SpecDrag == DragInit /\ [][DragNext]_vars

-----------------------------------------------------------------------------
(* Sound: the sweep register of channel 1                                  *)

\* longest sequence of register writes and samples explored
MaxSweepOps == 3

\* the values written to the sweep register NR10 (0xFF10): bit 7 is unused
SweepValues == 0..127

SweepInit ==
    /\ gb = [NewGameboy(Rom(RomLen, 0, EngineHeader), [Sound |-> TRUE, CGBMode |-> FALSE])
                EXCEPT !.Sound = APUWriteAll(@, ProgrammedRegisters)]
    /\ gb2 = NoGameboy
    /\ upd = NoUpdate
    /\ audio = NoAudio
    /\ ed = NoEditor
    /\ cart = ZeroCart
    /\ cart2 = ZeroCart
    /\ saveData = NoData
    /\ panicked = NoPanic
    /\ op = Op("start", 0, 0)
    /\ ret = 0
    /\ scn = NoScn
    /\ budget = MaxSweepOps

\* gb.Sound.Write(0xFF10, value)
SweepWriteAct ==
    /\ budget > 0
    /\ \E value \in SweepValues :
        /\ gb' = [gb EXCEPT !.Sound = APUWrite(@, 65296, value)]
        /\ op' = Op("APU.Write", 65296, value)
    /\ budget' = budget - 1
    /\ UNCHANGED <<cartVars, audio, ed, panicked, ret, gb2, upd>>

\* gb.Sound.Write(0xFF14, 0x80): channel 1 is triggered
Channel1TriggerAct ==
    /\ budget > 0
    /\ gb' = [gb EXCEPT !.Sound = APUWrite(@, 65300, 128)]
    /\ op' = Op("APU.Write", 65300, 128)
    /\ budget' = budget - 1
    /\ UNCHANGED <<cartVars, audio, ed, panicked, ret, gb2, upd>>

SweepNext == SweepWriteAct \/ Channel1TriggerAct \/ PlaySampleAct

SpecSweep == SweepInit /\ [][SweepNext]_vars

-----------------------------------------------------------------------------
(* The editor: the frame cache                                             *)

\* longest sequence of cache calls explored
MaxCacheOps == 2

\* The frames set and looked up, at both ends of a full cache and past it,
\* and the frames removeFramesStartingAt is called with.
CacheFrames == {0, 1, frameCacheSize - 1, frameCacheSize, frameCacheSize + 1}
RemoveFrames == {0, 1, frameCacheSize - 1, frameCacheSize + 1}

\* The engine after frame frameIndex of a run with no button held before it
\* and the buttons inputs held in it.
CacheInputs == {0, 1}
EngineAfter(frameIndex, inputs) ==
    FrameUpdate([frames |-> frameIndex, InputMask |-> 255, held |-> {}], inputs)

\* The cache after set(i, engine) for frames 0..count-1 in turn.
CacheFilled(count) ==
    [ frameIndices      |-> [i \in 1..count |-> i - 1],
      gameboys          |-> [i \in 1..count |-> EngineAfter(i - 1, 0)],
      nextIndexToRemove |-> 0 ]

\* A new cache, a cache of two frames and a full cache.
CacheInit ==
    /\ \E count \in {0, 2, frameCacheSize} :
        ed = [NewEditor EXCEPT !.frameCache = CacheFilled(count)]
    /\ gb = NoGameboy
    /\ gb2 = NoGameboy
    /\ upd = NoUpdate
    /\ audio = NoAudio
    /\ cart = ZeroCart
    /\ cart2 = ZeroCart
    /\ saveData = NoData
    /\ panicked = NoPanic
    /\ op = Op("start", 0, 0)
    /\ ret = 0
    /\ scn = NoScn
    /\ budget = MaxCacheOps

\* c.set(frameIndex, gb)
CacheSetAct ==
    \E frameIndex \in CacheFrames, inputs \in CacheInputs :
        Edit("set", frameIndex, inputs,
             [ed EXCEPT !.frameCache = cacheSet(@, frameIndex, EngineAfter(frameIndex, inputs))])

\* c.clear()
CacheClearAct == Edit("clear", 0, 0, [ed EXCEPT !.frameCache = cacheClear(@)])

\* c.removeFramesStartingAt(frameIndex)
CacheRemoveAct ==
    \E frameIndex \in RemoveFrames :
        Edit("removeFramesStartingAt", frameIndex, 0,
             [ed EXCEPT !.frameCache = removeFramesStartingAt(@, frameIndex)])

CacheNext == CacheSetAct \/ CacheClearAct \/ CacheRemoveAct

SpecCache == CacheInit /\ [][CacheNext]_vars

-----------------------------------------------------------------------------
(* Claims about the cartridge                                              *)

\* C1 (as stated): on every banked controller, after RAM is enabled by writing
\* 0x0A below 0x2000, a byte V written to an address of 0xA000-0xBFFF is
\* returned by the next read of that address.
C1_ReadBackAnyController == scn.phase = 3 => ret = scn.val

\* C1 (amended): the read returns V on MBC1 and MBC5, and on MBC3 while a RAM
\* bank 0..3 is selected or the RTC is not latched; on MBC2 it returns
\* V & 0x0F, provided the enabling write went to an address with bit 8 clear.
C1_ReadBack ==
    scn.phase = 3 =>
        CASE cart.memoryBank \in {mbc1, mbc5} -> ret = scn.val
          [] cart.memoryBank = mbc2 ->
                And(scn.en, 256) = 0 => ret = And(scn.val, 15)
          [] cart.memoryBank = mbc3 ->
                (cart.ramBank < 4 \/ ~cart.latched) => ret = scn.val
          [] OTHER -> TRUE

\* An MBC2 cartridge has read back 0x02 after 0x42 was written to enabled RAM.
C1_Witness ==
    /\ scn.phase = 3
    /\ cart.memoryBank = mbc2
    /\ And(scn.en, 256) = 0
    /\ scn.val = 66
    /\ ret = 2

\* C2: on an MBC1 cartridge the selected ROM bank is never 0x00, 0x20, 0x40
\* or 0x60, whatever was written to 0x0000-0x7FFF.
C2_Mbc1RomBankNeverZero ==
    cart.memoryBank = mbc1 => cart.romBank \notin {0, 32, 64, 96}

\* C10: a fresh cartridge loaded with GetSaveData of another holds the same
\* RAM; the slice is RamSize bytes long (empty for ROM only) and later RAM
\* writes do not change it; LoadSaveData leaves a ROM-only cartridge as it was.
C10_RoundTripState ==
    /\ op.name = "RoundTrip" =>
        IF cart.memoryBank = romOnly
        THEN saveData.len = 0 /\ cart2 = NewCart(cart.rom, cart.filename)
        ELSE /\ saveData.len = RamSize
             /\ cart2.ram = cart.ram
             /\ cart2 = [NewCart(cart.rom, cart.filename) EXCEPT !.ram = cart.ram]
    /\ op.name = "GetSaveData" =>
        IF cart.memoryBank = romOnly THEN saveData.len = 0
        ELSE saveData.len = RamSize /\ SliceBytes(saveData, cart) = cart.ram

C10_SaveDataRoundTrip ==
    /\ []C10_RoundTripState
    /\ [][op'.name = "WriteRAM" =>
            SliceBytes(saveData', cart') = SliceBytes(saveData, cart)]_vars
    /\ [][op'.name = "LoadSaveData" /\ cart.memoryBank = romOnly =>
            cart' = cart]_vars

\* A round trip has copied a RAM that holds a written byte.
C10_Witness ==
    /\ op.name = "RoundTrip"
    /\ cart.memoryBank # romOnly
    /\ \E i \in DOMAIN cart.ram : cart.ram[i] = 66 /\ ArrGet(cart2.ram, i) = 66

-----------------------------------------------------------------------------
(* Claims about interrupt dispatch                                         *)

\* The interrupt bits both requested (0xFF0F) and enabled (0xFFFF).
Pending(g) ==
    {i \in 0..4 : BitIsSet(ReadHighRam(g, 65295), i) /\ BitIsSet(ReadHighRam(g, 65535), i)}

Lowest(S) == CHOOSE i \in S : \A j \in S : i <= j

\* This step is a call of doInterrupts.
IsInterruptCall == op'.name = "doInterrupts" /\ op' # op

\* This step is a call of doInterrupts that pushed a return address.
IsDispatch == IsInterruptCall /\ HiLo(gb'.CPU.SP) # HiLo(gb.CPU.SP)

\* Neither byte of the pushed return address lands on the request register.
StackOffRequest(g) ==
    U16(HiLo(g.CPU.SP) - 1) # 65295 /\ U16(HiLo(g.CPU.SP) - 2) # 65295

\* Both bytes of the pushed return address land in work RAM (0xC000-0xDFFF)
\* or in high RAM above the I/O registers (0xFF80-0xFFFE).
StackInRam(g) ==
    \A a \in {U16(HiLo(g.CPU.SP) - 1), U16(HiLo(g.CPU.SP) - 2)} :
        (a >= 49152 /\ a < 57344) \/ (a >= 65408 /\ a < 65535)

\* The dispatch jumps to the vector of the lowest pending bit and pushes once.
DispatchesLowest ==
    /\ Pending(gb) # {}
    /\ gb'.CPU.PC = 64 + 8 * Lowest(Pending(gb))
    /\ HiLo(gb'.CPU.SP) = U16(HiLo(gb.CPU.SP) - 2)
    /\ ret' = 20

\* Every other bit that was pending is still requested after the call.
OthersStayPending ==
    \A j \in Pending(gb) \ {Lowest(Pending(gb))} :
        BitIsSet(ReadHighRam(gb', 65295), j)

\* C3 (as stated): a dispatch takes the lowest-numbered bit that is requested
\* and enabled (V-blank before Timer), dispatches one interrupt only, and
\* leaves the other pending bits requested.
C3_PriorityOthersPending ==
    [][IsDispatch => DispatchesLowest /\ OthersStayPending]_vars

\* C3 (amended): the same, the other bits staying requested provided the
\* pushed return address is not written over the request register 0xFF0F.
C3_Priority ==
    [][IsDispatch =>
        /\ DispatchesLowest
        /\ StackOffRequest(gb) => OthersStayPending]_vars

\* V-blank was dispatched while the Timer interrupt is still pending.
C3_Witness ==
    /\ op.name = "doInterrupts"
    /\ ret = 20
    /\ gb.CPU.PC = 64
    /\ HiLo(gb.CPU.SP) = 65532
    /\ 2 \in Pending(gb)
    /\ ~BitIsSet(ReadHighRam(gb, 65295), 0)

\* What servicing bit i leaves behind.
Serviced(i) ==
    /\ ~gb'.InterruptsOn
    /\ ~gb'.Halted
    /\ ~BitIsSet(ReadHighRam(gb', 65295), i)
    /\ \A j \in (0..4) \ {i} :
          BitIsSet(ReadHighRam(gb', 65295), j) = BitIsSet(ReadHighRam(gb, 65295), j)
    /\ HiLo(gb'.CPU.SP) = U16(HiLo(gb.CPU.SP) - 2)
    /\ MemByte(gb', U16(HiLo(gb.CPU.SP) - 1)) = gb.CPU.PC \div 256
    /\ MemByte(gb', U16(HiLo(gb.CPU.SP) - 2)) = gb.CPU.PC % 256
    /\ gb'.CPU.PC = 64 + 8 * i
    /\ ret' = 20

\* C4 (as stated): with IME on and no EI pending, a call services any bit i
\* that is requested and enabled: IME and halted off, bit i alone cleared,
\* the old PC pushed high byte first, PC = 0x40 + 8*i, 20 cycles.
C4_ServiceAnyPendingBit ==
    [][IsInterruptCall /\ gb.InterruptsOn /\ ~gb.InterruptsEnabling =>
        \A i \in Pending(gb) : Serviced(i)]_vars

\* C4 (amended): the bit serviced is the lowest-numbered one that is requested
\* and enabled, and the pushed bytes are found on the stack when SP-1 and
\* SP-2 are RAM addresses (work RAM or high RAM above the I/O registers).
C4_ServiceLowestPendingBit ==
    [][IsInterruptCall /\ gb.InterruptsOn /\ ~gb.InterruptsEnabling
            /\ Pending(gb) # {} /\ StackInRam(gb) =>
        Serviced(Lowest(Pending(gb)))]_vars

\* The Timer interrupt was serviced from PC 0xC123 with the stack at 0xD000.
C4_Witness ==
    /\ op.name = "doInterrupts"
    /\ ret = 20
    /\ gb.CPU.PC = 80
    /\ ~gb.InterruptsOn
    /\ HiLo(gb.CPU.SP) = 53246
    /\ MemByte(gb, 53247) = 193
    /\ MemByte(gb, 53246) = 35
    /\ ~BitIsSet(ReadHighRam(gb, 65295), 2)

-----------------------------------------------------------------------------
(* Claims about the frame loop                                             *)

\* An Update call has returned.
UpdateReturned == upd.pc = "idle" /\ upd.frames >= 1

\* C5 (as stated): after N consecutive Update calls the instructions and
\* interrupts run by them have cost exactly N x CyclesPerFrame cycles.
C5_ExactFrameTotal ==
    UpdateReturned => upd.total = upd.frames * CyclesPerFrame

\* The cycles spent so far are the frame budgets of the completed calls plus
\* what is carried: ExtraCycles between calls, the running count inside one.
C5_TotalState ==
    upd.total = upd.frames * CyclesPerFrame
                    + (IF upd.pc = "idle" THEN gb.ExtraCycles ELSE upd.cycles)

\* C5 (amended): after N consecutive Update calls the cycles spent are
\* N x CyclesPerFrame plus the remainder left in ExtraCycles, and every call
\* starts its count at the remainder the previous call left.
C5_FrameTotalWithCarry ==
    /\ []C5_TotalState
    /\ [][(upd.pc = "idle" /\ upd'.pc = "loop") => upd'.cycles = gb.ExtraCycles]_vars

\* Two calls have returned, the second one with more than the least remainder.
C5_Witness ==
    /\ upd.pc = "idle"
    /\ upd.frames = 2
    /\ gb.ExtraCycles > 2
    /\ upd.total = 2 * CyclesPerFrame + gb.ExtraCycles
    /\ ret = CyclesPerFrame + gb.ExtraCycles

\* C6 (as stated): after every Update call the remainder is at least 0 and
\* below the cost of the single instruction run by the last iteration.
C6_RemainderBelowInstruction ==
    UpdateReturned => (0 <= gb.ExtraCycles /\ gb.ExtraCycles < upd.cyclesOp)

\* C6 (amended): after every Update call the remainder is at least 0 and
\* below the cost of the last iteration, which is the cost of its instruction
\* (4 when halted) plus the 20 cycles doInterrupts returned, if it did.
C6_RemainderBelowIteration ==
    UpdateReturned =>
        /\ 0 <= gb.ExtraCycles
        /\ gb.ExtraCycles < upd.cyclesOp + upd.irq
        /\ upd.irq \in {0, 20}

\* The last iteration serviced an interrupt and the remainder is not below
\* the cost of its instruction.
C6_Witness ==
    /\ UpdateReturned
    /\ upd.irq = 20
    /\ gb.CPU.PC = 64
    /\ gb.ExtraCycles >= upd.cyclesOp

-----------------------------------------------------------------------------
(* Claims about snapshots                                                  *)

\* C7: once gb2 is a value copy of the engine, every operation on the engine
\* (Update, PressButton, ReleaseButton, cartridge writes, APU writes, resuming
\* from the copy) leaves every field of gb2 unchanged, the shared ROM bytes
\* included, which no operation writes.
C7_IndependentSnapshot ==
    [][(op'.name # "snapshot" /\ gb2 # NoGameboy) =>
            /\ gb2' = gb2
            /\ gb'.Memory.Cart.rom = gb.Memory.Cart.rom]_vars

\* The engine has pressed a button and run a frame since the copy was taken,
\* and the copy still is the engine as constructed.
C7_Witness ==
    /\ gb2 = NewGameboy(Rom(RomLen, 0, EngineHeader), [Sound |-> FALSE, CGBMode |-> FALSE])
    /\ upd.pc = "idle"
    /\ upd.frames = 1
    /\ gb.InputMask # gb2.InputMask
    /\ gb.ExtraCycles # gb2.ExtraCycles
    /\ gb.Memory.HighRAM # gb2.Memory.HighRAM

-----------------------------------------------------------------------------
(* Claims about the buttons                                                *)

\* This step is a call of the named operation.
IsCall(name) == op'.name = name /\ budget' = budget - 1

\* C11: PressButton(b) clears bit b of the input mask, leaves the other mask
\* bits as they were and sets bit 4 of the request register; ReleaseButton(b)
\* sets bit b of the mask, leaves the other mask bits and the request register
\* as they were.
C11_PressRelease ==
    /\ [][IsCall("PressButton") =>
            /\ \A j \in 0..7 : BitIsSet(gb'.InputMask, j)
                                = (j # op'.address /\ BitIsSet(gb.InputMask, j))
            /\ BitIsSet(ReadHighRam(gb', 65295), 4)]_vars
    /\ [][IsCall("ReleaseButton") =>
            /\ \A j \in 0..7 : BitIsSet(gb'.InputMask, j)
                                = (j = op'.address \/ BitIsSet(gb.InputMask, j))
            /\ ReadHighRam(gb', 65295) = ReadHighRam(gb, 65295)]_vars

\* ButtonDown was pressed and then ButtonA released on a mask with all
\* buttons but A up; the joypad request of the press is still there.
C11_Witness ==
    /\ op = Op("ReleaseButton", 0, 0)
    /\ budget = MaxPresses - 2
    /\ gb.InputMask = 127
    /\ ReadHighRam(gb, 65295) = 16

-----------------------------------------------------------------------------
(* Claims about the RAM-enable gate                                        *)

Banked == {mbc1, mbc2, mbc3, mbc5}

\* A call of WriteROM below 0x2000 that did not panic.
IsEnableWrite ==
    /\ IsCall("WriteROM")
    /\ op'.address < 8192
    /\ panicked' = NoPanic
    /\ cart.memoryBank \in Banked

\* A write to 0xA000-0xBFFF while RAM is disabled leaves RAM and RTC alone.
DisabledWriteDropped ==
    IsCall("WriteRAM") /\ ~cart.ramEnabled =>
        /\ cart'.ram = cart.ram
        /\ cart'.rtc = cart.rtc
        /\ panicked' = NoPanic

\* A write below 0x2000 changes neither the stored bytes nor what any read of
\* the RAM window returns.
EnableWriteKeepsBytes ==
    IsEnableWrite =>
        /\ cart'.ram = cart.ram
        /\ cart'.rtc = cart.rtc
        /\ \A a \in RamAddrs :
              ~ReadPanics(cart, a) =>
                  ~ReadPanics(cart', a) /\ Read(cart', a) = Read(cart, a)

\* RAM stays disabled until a write below 0x2000.
DisabledUntilEnableWrite ==
    ~cart.ramEnabled /\ cart'.ramEnabled => IsEnableWrite

\* C12 (as stated): on MBC1, MBC2, MBC3 and MBC5 every write of 0x00 below
\* 0x2000 disables RAM; while disabled, writes to 0xA000-0xBFFF are dropped;
\* disabling and enabling alter no stored byte.
C12_DisableAnyAddress ==
    [][ /\ IsEnableWrite /\ op'.value = 0 => ~cart'.ramEnabled
        /\ DisabledWriteDropped
        /\ EnableWriteKeepsBytes
        /\ DisabledUntilEnableWrite ]_vars

\* C12 (amended): as stated, except that on MBC2 the write of 0x00 disables
\* RAM only at an address with bit 8 clear and leaves the gate as it was at an
\* address with bit 8 set.
C12_DisableDropsWrites ==
    [][ /\ IsEnableWrite /\ op'.value = 0 =>
              IF cart.memoryBank = mbc2 /\ And(op'.address, 256) # 0
              THEN cart'.ramEnabled = cart.ramEnabled
              ELSE ~cart'.ramEnabled
        /\ DisabledWriteDropped
        /\ EnableWriteKeepsBytes
        /\ DisabledUntilEnableWrite ]_vars

\* 0x42 was stored, RAM disabled, and a write of 0xFF to the same address
\* was dropped.
C12_Witness ==
    /\ op = Op("WriteRAM", 40960, 255)
    /\ budget = MaxOps - 4
    /\ ~cart.ramEnabled
    /\ cart.memoryBank = mbc1
    /\ ArrGet(cart.ram, 0) = 66

-----------------------------------------------------------------------------
(* Claims about the MBC2 and MBC3 ROM bank                                 *)

\* A call of WriteROM in 0x2000-0x3FFF that did not panic.
IsBankWrite ==
    /\ IsCall("WriteROM")
    /\ op'.address >= 8192
    /\ op'.address < 16384
    /\ panicked' = NoPanic

RomBankInRange ==
    /\ cart.memoryBank = mbc2 => cart.romBank \in 1..15
    /\ cart.memoryBank = mbc3 => cart.romBank \in 1..127

-----------------------------------------------------------------------------
(* Claims about the EI delay and the halted CPU                            *)

\* C14: a call of doInterrupts made while the interrupts-enabling flag is set
\* only turns IME on and clears the flag: it returns 0 and dispatches nothing
\* (PC, SP, request register and everything else unchanged), even when an
\* enabled interrupt is pending.
C14_EIDelay ==
    [][IsInterruptCall /\ gb.InterruptsEnabling =>
        /\ ret' = 0
        /\ gb'.InterruptsOn
        /\ ~gb'.InterruptsEnabling
        /\ gb'.CPU.PC = gb.CPU.PC
        /\ HiLo(gb'.CPU.SP) = HiLo(gb.CPU.SP)
        /\ ReadHighRam(gb', 65295) = ReadHighRam(gb, 65295)
        /\ gb' = [gb EXCEPT !.InterruptsOn = TRUE, !.InterruptsEnabling = FALSE]]_vars

\* The first call has returned 0 with IME now on while V-blank is pending and
\* undispatched: only a call entered with the enabling flag set leaves this.
C14_Witness ==
    /\ op = Op("doInterrupts", 0, 0)
    /\ ret = 0
    /\ gb.InterruptsOn
    /\ ~gb.InterruptsEnabling
    /\ 0 \in Pending(gb)
    /\ gb.CPU.PC = 336
    /\ HiLo(gb.CPU.SP) = 65534

\* C15: a call of doInterrupts on a halted CPU with IME off un-halts it
\* without servicing when some bit is both requested and enabled (request
\* register, IME, PC and SP unchanged); otherwise the CPU stays halted.
C15_HaltWake ==
    [][IsInterruptCall /\ gb.Halted /\ ~gb.InterruptsOn =>
        IF Pending(gb) # {}
        THEN /\ ~gb'.Halted
             /\ ReadHighRam(gb', 65295) = ReadHighRam(gb, 65295)
             /\ ~gb'.InterruptsOn
             /\ gb'.CPU.PC = gb.CPU.PC
             /\ HiLo(gb'.CPU.SP) = HiLo(gb.CPU.SP)
             /\ gb' = [gb EXCEPT !.Halted = FALSE]
        ELSE gb'.Halted /\ gb' = gb]_vars

\* The first call returned 20 and left the CPU running with IME off, PC and SP
\* where they were and V-blank still pending: the halted CPU was woken.
C15_Witness ==
    /\ op = Op("doInterrupts", 0, 0)
    /\ ret = 20
    /\ ~gb.Halted
    /\ ~gb.InterruptsOn
    /\ 0 \in Pending(gb)
    /\ gb.CPU.PC = 336
    /\ HiLo(gb.CPU.SP) = 65534

-----------------------------------------------------------------------------
(* Claims about the timer                                                  *)

\* The period TAC selects.
Period(tac) ==
    CASE And(tac, 3) = 0 -> 1024
      [] And(tac, 3) = 1 -> 16
      [] And(tac, 3) = 2 -> 64
      [] OTHER -> 256

\* TIMA after n increments, and whether one of them started from 0xFF.
RECURSIVE Ticked(_, _, _)
Ticked(tima, tma, n) ==
    IF n = 0 THEN [tima |-> tima, overflowed |-> FALSE]
    ELSE IF tima = 255
         THEN [Ticked(tma, tma, n - 1) EXCEPT !.overflowed = TRUE]
         ELSE Ticked(tima + 1, tma, n - 1)

\* C16: with TAC bit 2 set, updateTimers adds the cycles to the counter and
\* takes one period P (TAC & 3: 0 -> 1024, 1 -> 16, 2 -> 64, 3 -> 256) off it
\* per TIMA increment until 0 <= counter < P; an increment from 0xFF loads TMA
\* and sets bit 2 of the request register; with TAC bit 2 clear the counter
\* and TIMA are unchanged.
C16_Timer ==
    [][IsCall("updateTimers") =>
        LET tac == ReadHighRam(gb, TAC)
            P == Period(tac)
            total == gb.TimerCounter + op'.value
            t == Ticked(ReadHighRam(gb, TIMA), ReadHighRam(gb, TMA), total \div P)
        IN IF BitIsSet(tac, 2)
           THEN /\ gb'.TimerCounter = total % P
                /\ gb'.TimerCounter >= 0
                /\ gb'.TimerCounter < P
                /\ ReadHighRam(gb', TIMA) = t.tima
                /\ t.overflowed => BitIsSet(ReadHighRam(gb', 65295), 2)
                /\ ~t.overflowed => ReadHighRam(gb', 65295) = ReadHighRam(gb, 65295)
           ELSE /\ gb'.TimerCounter = gb.TimerCounter
                /\ ReadHighRam(gb', TIMA) = ReadHighRam(gb, TIMA)
                /\ ReadHighRam(gb', 65295) = ReadHighRam(gb, 65295)]_vars

\* With period 16 a call of 16 cycles has overflowed TIMA: it holds TMA, the
\* counter is back at 0 and the Timer interrupt is requested.
C16_Witness ==
    /\ op = Op("updateTimers", 0, 16)
    /\ budget = MaxTimerCalls - 1
    /\ ReadHighRam(gb, TAC) = 5
    /\ ReadHighRam(gb, TMA) = 171
    /\ ReadHighRam(gb, TIMA) = 171
    /\ gb.TimerCounter = 0
    /\ ReadHighRam(gb, 65295) = 5

-----------------------------------------------------------------------------
(* Claims about the value Update returns                                   *)

\* C17 (as stated): the value Update returns is the sum of the instruction
\* and interrupt-service costs of that call alone, without the cycles carried
\* over from the previous call.
C17_ReturnsCallCycles == UpdateReturned => ret = upd.spent

-----------------------------------------------------------------------------
(* Claims about the ROM header                                             *)

\* C18 (as stated): NewCart on a ROM shorter than 0x150 bytes is rejected:
\* it does not panic and it yields no cartridge.
C18_ShortRomRejected ==
    op.name = "NewCart" /\ op.address < 336 =>
        panicked = NoPanic /\ cart = ZeroCart

\* C20: the mode of a constructed cartridge is DMG|CGB when header byte 0x143
\* is 0x80, CGB when it is 0xC0 and DMG for each of the other 254 values,
\* whatever the controller byte and the length of the ROM.
C20_ModeFromHeader ==
    op.name = "NewCart" /\ panicked = NoPanic =>
        /\ cart.rom.b143 = op.value
        /\ GetMode(cart) = (CASE op.value = 128 -> 3
                              [] op.value = 192 -> 2
                              [] OTHER -> 1)

\* A cartridge with header byte 0x143 = 0x81 was built DMG-only.
C20_Witness ==
    /\ op.name = "NewCart"
    /\ panicked = NoPanic
    /\ cart.rom.b143 = 129
    /\ cart.rom.b147 = 19
    /\ GetMode(cart) = DMG

-----------------------------------------------------------------------------
(* Claims about the joypad register                                        *)

\* C19 (as stated): joypadValue(c) has bits 6-7 set, bits 4-5 as in c, and as
\* its low nibble the low nibble of the input mask when bit 4 of c is set,
\* else the high nibble of the mask when bit 5 is set, else 0xF; for every
\* control byte c and every input mask.
C19_JoypadNibble ==
    op.name = "joypadValue" =>
        LET c == op.value
            nibble == IF BitIsSet(c, 4) THEN gb.InputMask % 16
                      ELSE IF BitIsSet(c, 5) THEN gb.InputMask \div 16
                      ELSE 15
        IN ret = 192 + And(c, 48) + nibble

-----------------------------------------------------------------------------
(* Claims about the CB rotates and shifts                                  *)

\* The bit a rotate or shift moves out of its operand.
BitOut(name, val) ==
    IF name \in {"RLC", "RL", "SLA"} THEN val \div 128 ELSE val % 2

\* C21: after RLC, RRC, RL, RR, SLA, SRA or SRL on any operand byte with any
\* incoming carry, C is the bit moved out of the operand, N and H are clear,
\* and Z is set exactly when the value written back is 0.
C21_RotateFlags ==
    [][\A name \in CbRotates :
        IsCall(name) =>
            /\ FlagC(gb'.CPU) = (BitOut(name, op'.value) = 1)
            /\ ~FlagN(gb'.CPU)
            /\ ~FlagH(gb'.CPU)
            /\ FlagZ(gb'.CPU) = (cbGet(gb', op'.address) = 0)]_vars

\* SRA has shifted 0x01 held in (HL) to 0: C and Z set, N and H clear.
C21_Witness ==
    /\ op = Op("SRA", 6, 1)
    /\ MemByte(gb, HiLo(gb.CPU.HL)) = 0
    /\ FlagC(gb.CPU)
    /\ FlagZ(gb.CPU)
    /\ ~FlagN(gb.CPU)
    /\ ~FlagH(gb.CPU)

-----------------------------------------------------------------------------
(* Claims about the AF pair                                                *)

\* C22: in every state reached from CPU.Init by Set, SetHi, SetLo and the
\* flag setters on AF, bits 0-3 of F read 0.
C22_AFLowNibbleZero ==
    /\ And(RegLo(gb.CPU.AF), 15) = 0
    /\ And(HiLo(gb.CPU.AF), 15) = 0

\* After two operations, the last one a flag setter, F holds 0xE0.
C22_Witness ==
    /\ op.name = "setFlag"
    /\ budget = MaxRegOps - 2
    /\ RegLo(gb.CPU.AF) = 224
    /\ And(RegLo(gb.CPU.AF), 15) = 0

-----------------------------------------------------------------------------
(* Claims about the MBC1 upper bank register, MBC5 and the MBC3 latch      *)

\* A call of WriteROM in [lo, hi) on a cartridge of the given controller
\* that did not panic.
IsRegisterWrite(bank, lo, hi) ==
    /\ IsCall("WriteROM")
    /\ cart.memoryBank = bank
    /\ op'.address >= lo
    /\ op'.address < hi
    /\ panicked' = NoPanic

\* C23 (as stated): on MBC1 a write of v to 0x4000-0x5FFF in ROM-banking mode
\* changes only bits 5-6 of the ROM bank and keeps its low 5 bits, so the ROM
\* bank never exceeds 0x7F; in RAM-banking mode it sets the RAM bank to v & 3
\* and leaves the ROM bank unchanged.
C23_Mbc1UpperBits ==
    /\ [](cart.memoryBank = mbc1 => cart.romBank <= 127)
    /\ [][IsRegisterWrite(mbc1, 16384, 24576) =>
            IF cart.romBanking
            THEN /\ And(cart'.romBank, 31) = And(cart.romBank, 31)
                 /\ cart'.romBank <= 127
            ELSE /\ cart'.ramBank = And(op'.value, 3)
                 /\ cart'.romBank = cart.romBank]_vars

\* A write to 0x4000-0x5FFF sets the RAM bank of an MBC5 cartridge to
\* v & 0x0F and a write to 0x6000-0x7FFF changes nothing.
Mbc5UpperRegisters ==
    /\ IsRegisterWrite(mbc5, 16384, 24576) =>
          cart' = [cart EXCEPT !.ramBank = And(op'.value, 15)]
    /\ IsRegisterWrite(mbc5, 24576, 32768) => cart' = cart

\* C24 (as stated): on MBC5 a write of v anywhere in 0x2000-0x3FFF sets the
\* low 8 bits of the ROM bank to v, without zero-skip; a write to
\* 0x4000-0x5FFF sets the RAM bank to v & 0x0F; a write to 0x6000-0x7FFF
\* changes nothing.
C24_Mbc5LowBitsAnywhere ==
    [][ /\ IsRegisterWrite(mbc5, 8192, 16384) => And(cart'.romBank, 255) = op'.value
        /\ Mbc5UpperRegisters ]_vars

\* C24 (amended): the low 8 bits are set by a write to 0x2000-0x2FFF, which
\* keeps bit 8; a write to 0x3000-0x3FFF sets bit 8 of the ROM bank to v & 1
\* and keeps the low 8 bits.
C24_Mbc5Registers ==
    [][ /\ IsRegisterWrite(mbc5, 8192, 12288) =>
              cart' = [cart EXCEPT !.romBank = Or(And(cart.romBank, 256), op'.value)]
        /\ IsRegisterWrite(mbc5, 12288, 16384) =>
              cart' = [cart EXCEPT !.romBank =
                          And(cart.romBank, 255) + 256 * And(op'.value, 1)]
        /\ Mbc5UpperRegisters ]_vars

\* An MBC5 cartridge selects bank 0x100: 0x00 was written to 0x2000 and an
\* odd value to 0x3000.
C24_Witness ==
    /\ op = Op("WriteROM", 12288, 1)
    /\ cart.memoryBank = mbc5
    /\ cart.romBank = 256
    /\ panicked = NoPanic

\* An RTC register of an MBC3 cartridge is selected and the RTC is latched.
LatchedRtcSelected ==
    /\ cart.memoryBank = mbc3
    /\ cart.latched
    /\ cart.ramBank >= 4
    /\ cart.ramBank < RtcSize

\* C25: on MBC3 a write of 0x00 to 0x6000-0x7FFF sets the latched flag and
\* copies the latched snapshot over the live RTC registers, a write of 0x01
\* clears the flag, any other value changes nothing; while latched, a read of
\* an RTC register returns the latched copy, and an RTC write goes to the live
\* register and changes neither the latched copy nor what is read.
C25_RtcLatch ==
    [][ /\ IsRegisterWrite(mbc3, 24576, 32768) =>
              cart' = CASE op'.value = 0 ->
                             [cart EXCEPT !.latched = TRUE, !.rtc = cart.latchedRtc]
                        [] op'.value = 1 -> [cart EXCEPT !.latched = FALSE]
                        [] OTHER -> cart
        /\ IsCall("Read") /\ LatchedRtcSelected =>
              ret' = ArrGet(cart.latchedRtc, cart.ramBank)
        /\ IsCall("WriteRAM") /\ LatchedRtcSelected =>
              /\ cart'.latchedRtc = cart.latchedRtc
              /\ cart.ramEnabled => ArrGet(cart'.rtc, cart.ramBank) = op'.value
              /\ \A a \in RamAddrs : Read(cart', a) = Read(cart, a) ]_vars

\* RTC register 5 was written 0x42 while latched: the live register holds it
\* and a read still returns the latched 0.
C25_Witness ==
    /\ op = Op("WriteRAM", 40960, 66)
    /\ LatchedRtcSelected
    /\ cart.ramBank = 5
    /\ ArrGet(cart.rtc, 5) = 66
    /\ Read(cart, 40960) = 0

-----------------------------------------------------------------------------
(* Claims about the save loop                                              *)

\* C26: for a cartridge built by NewCart from a battery-backed header type,
\* whenever the RAM of the returned cartridge differs from the save file, a
\* later tick of the save loop writes a file that holds that RAM.
C26_AutosavePersists ==
    (saveData.bytes # cart.ram) ~> (saveData.len = RamSize /\ saveData.bytes = cart.ram)

-----------------------------------------------------------------------------
(* Claims about the sound registers                                        *)

\* The channel a trigger register belongs to, and the register that holds
\* its envelope (NRx2), as an index into APU.Memory.
TriggerChannel(address) ==
    CASE address = 65300 -> 1 [] address = 65305 -> 2 [] address = 65310 -> 3 [] OTHER -> 4

EnvelopeRegister(k) == CASE k = 1 -> 18 [] k = 2 -> 23 [] k = 3 -> 28 [] OTHER -> 33

ChannelOf(g, k) ==
    CASE k = 1 -> g.Sound.Channel1 [] k = 2 -> g.Sound.Channel2
      [] k = 3 -> g.Sound.Channel3 [] OTHER -> g.Sound.Channel4

IsTriggerWrite ==
    /\ IsCall("APU.Write")
    /\ op'.address \in {65300, 65305, 65310, 65315}
    /\ And(op'.value, 128) = 128

\* What every trigger write does to its channel and to the others.
TriggerResets(k) ==
    /\ ChannelOf(gb', k).EnvelopeTime = 0
    /\ ChannelOf(gb', k).SweepTime = 0
    /\ ChannelOf(gb', k).SweepStep = 0
    /\ And(op'.value, 64) = 0 => ChannelOf(gb', k).Duration = -1
    /\ \A j \in (1..4) \ {k} : ChannelOf(gb', j) = ChannelOf(gb, j)

EnvelopeReloaded(k) ==
    ChannelOf(gb', k).EnvelopeSteps =
        And(ArrGet(gb'.Sound.Memory, EnvelopeRegister(k)), 240) \div 16

\* C28 (as stated): for each channel 1-4, a write with bit 7 set to the
\* channel's trigger register zeroes its envelope timer, sweep timer and sweep
\* step, reloads its envelope step count from the envelope register, makes the
\* duration -1 when bit 6 is clear, and leaves the other channels unchanged.
C28_TriggerAllChannels ==
    [][IsTriggerWrite =>
         LET k == TriggerChannel(op'.address)
         IN TriggerResets(k) /\ EnvelopeReloaded(k)]_vars

\* C28 (amended): the same, except that the envelope step count is reloaded
\* for channels 1, 2 and 4 only; the trigger of channel 3 (0xFF1E), which has
\* no envelope register, leaves the envelope step count of channel 3 as it is.
C28_Trigger ==
    [][IsTriggerWrite =>
         LET k == TriggerChannel(op'.address)
         IN /\ TriggerResets(k)
            /\ k # 3 => EnvelopeReloaded(k)
            /\ k = 3 => ChannelOf(gb', 3).EnvelopeSteps = ChannelOf(gb, 3).EnvelopeSteps]_vars

\* a second trigger of channel 1 after its timers have run
C28_Witness ==
    /\ op = Op("APU.Write", 65300, 128)
    /\ budget = MaxApuOps - 4
    /\ gb.Sound.Channel1.EnvelopeSamples = 689
    /\ gb.Sound.Channel1.EnvelopeTime = 0
    /\ gb.Sound.Channel1.SweepStep = 0
    /\ gb.Sound.Channel1.EnvelopeSteps = 15
    /\ gb.Sound.Channel1.Duration = -1
    /\ gb.Sound.Channel2.EnvelopeTime = 1

-----------------------------------------------------------------------------
(* Claims about the audio producers                                        *)

\* C27: the engine thread is never inside APU.Write for a channel while an
\* audio producer is inside Sample of the same channel, and an engine never
\* has more than one audio producer.
C27_Serialized ==
    /\ Len(audio.players) <= 1
    /\ \A i \in DOMAIN audio.players :
        ~(audio.engine # 0 /\ audio.players[i].chan = audio.engine)

-----------------------------------------------------------------------------
(* Claims about the editor                                                 *)

\* C29: after any sequence of input edits, branch creation, branch switching
\* and branch deletion, generateFrame(i) returns the engine that a new engine
\* reaches by replaying frames 0..i of the current branch.
C29_CachedReplay ==
    \A i \in ViewFrames : generateFrame(ed, i).gb = wantGB(ed, i)


\* The frames in the cache with their engines.
CacheEntries(c) == {<<c.frameIndices[i], c.gameboys[i]>> : i \in 1..Len(c.frameIndices)}

\* C30: setDirtyFrame(f) keeps exactly the key frames of frames before f
\* (key frame k is frame 100 k), so at most ceil(f/100) of them: none for
\* f = 0, key frame 0 for 1..100, key frames 0 and 1 for 101..200, three for
\* 201; the frame cache loses exactly the entries of frames >= f, and the
\* entries of frames < f keep their engines.
C30_SetDirtyFrame ==
    [][IsCall("setDirtyFrame") =>
         LET f == op'.address
             kept == {k \in 0..(Len(ed.keyFrameStates) - 1) : k * keyFrameInterval < f}
         IN /\ Len(ed'.keyFrameStates) = Cardinality(kept)
            /\ \A k \in kept : ed'.keyFrameStates[k + 1] = ed.keyFrameStates[k + 1]
            /\ f = 0 => Len(ed'.keyFrameStates) = 0
            /\ f \in 1..100 => Len(ed'.keyFrameStates) <= 1
            /\ f \in 101..200 => Len(ed'.keyFrameStates) <= 2
            /\ f = 201 => Len(ed'.keyFrameStates) <= 3
            /\ CacheEntries(ed'.frameCache) =
                    {e \in CacheEntries(ed.frameCache) : e[1] < f}
            /\ Len(ed'.frameCache.frameIndices) = Cardinality(CacheEntries(ed'.frameCache))
            /\ Len(ed'.frameCache.gameboys) = Len(ed'.frameCache.frameIndices)]_vars

\* setDirtyFrame(201) has kept three of four key frames and the cached frames
\* up to 200
C30_Witness ==
    /\ op = Op("setDirtyFrame", 201, 0)
    /\ budget = MaxDirtyOps - 1
    /\ Len(ed.keyFrameStates) = 3
    /\ ed.keyFrameStates[3].frames = 201
    /\ \E i \in 1..Len(ed.frameCache.frameIndices) :
            ed.frameCache.frameIndices[i] = 200 /\ ed.frameCache.gameboys[i].frames = 201
    /\ \A i \in 1..Len(ed.frameCache.frameIndices) : ed.frameCache.frameIndices[i] < 201

\* C31: on an MBC1 cartridge, in every reachable state ROM-banking mode
\* implies RAM bank 0 and RAM-banking mode implies a ROM bank of at most 0x1F;
\* a write to 0x6000-0x7FFF enters ROM-banking mode when bit 0 of the value
\* is 0 and RAM-banking mode when it is 1.
C31_ModeInvariant ==
    cart.memoryBank = mbc1 =>
        /\ cart.romBanking => cart.ramBank = 0
        /\ ~cart.romBanking => cart.romBank <= 31

C31_ModeSelect ==
    (/\ IsCall("WriteROM")
     /\ cart.memoryBank = mbc1
     /\ panicked' = NoPanic
     /\ op'.address >= 24576 /\ op'.address < 32768)
    => cart'.romBanking = (And(op'.value, 1) = 0)

\* C31: the banking mode invariant holds in every state and every mode
\* select write sets the mode from bit 0 of the value.
C31_BankingMode == []C31_ModeInvariant /\ [][C31_ModeSelect]_vars

\* A mode-select write with bit 0 clear has put an MBC1 cartridge, whose ROM
\* bank held high bits, into ROM-banking mode with RAM bank 0.
C31_Witness ==
    /\ cart.memoryBank = mbc1
    /\ op = Op("WriteROM", 24576, 0)
    /\ budget = MaxOps - 3
    /\ cart.romBanking /\ cart.ramBank = 0 /\ cart.romBank > 31

\* C32: on a cartridge of any controller type built by NewCart, a Read or a
\* WriteRAM at an address in 0xA000-0xBFFF after any sequence of WriteROM
\* calls never indexes outside the RAM array, the RTC registers or the ROM.
C32_NoOutOfRange ==
    (op.name \in {"Read", "WriteRAM"} /\ op.address >= 40960 /\ op.address <= 49151)
    => panicked # IndexPanic

\* C33: in every reachable editor state 0 <= branchIndex < len(branches),
\* over New Branch, Delete Branch, branch switches, session opens and new
\* speedruns, so that branch() never indexes out of range.
C33_BranchIndexInRange ==
    /\ 0 <= ed.branchIndex /\ ed.branchIndex < Len(ed.branches)
    /\ panicked # IndexPanic

\* C34: when open returns an error, nothing the editor uses has changed:
\* leftMostFrame, the selection, the scale, the branches and the branch index,
\* the key frames, the frame cache and the loaded ROM are as before the call.
C34_OpenAllOrNothing ==
    [][(IsCall("open") /\ ret' # 0) => ed' = ed]_vars

\* C35: in every reachable editor state leftMostFrame >= 0, over the mouse
\* wheel, the arrow keys with and without Shift, Home and End, go-to-frame
\* and dragging with the right mouse button.
C35_LeftMostFrameNonNegative == ed.leftMostFrame >= 0

\* C37: adjusting the last input action with the append, prepend and remove
\* keys, with any repeat count, leaves an action with frameIndex >= 0 and
\* count >= 1, and setButtonDown is never called with a negative frame index.
C37_LastActionInRange ==
    /\ ed.lastAction.valid => (ed.lastAction.frameIndex >= 0 /\ ed.lastAction.count >= 1)
    /\ op.name = "adjust" => (op.address >= 0 /\ op.value >= 1)

\* C36: after dragFrameInputsTo with any offset the frames of the active
\* selection hold the inputs the drag-start selection held when the drag
\* began (same count, same order), the frames the move has vacated hold the
\* neighbouring input (the left neighbour after a move to later frames, the
\* right neighbour after a move to earlier frames), and every other frame
\* holds its drag-start value.
InputAtDragStart(i) ==
    IF i < Len(ed.dragStartInputs) THEN ed.dragStartInputs[i + 1]
    ELSE branch(ed).defaultInputs

C36_BlockIntact ==
    LET dragStart == selStart(ed.dragStartSelection)
        dragCount == selCount(ed.dragStartSelection)
        newStart  == selStart(ed.activeSelection)
        inputs    == branch(ed).frameInputs
        leftNeighbour  == IF dragStart > 0 THEN InputAtDragStart(dragStart - 1) ELSE 0
        rightNeighbour == InputAtDragStart(dragStart + dragCount)
    IN op.name = "dragFrameInputsTo" =>
        /\ selCount(ed.activeSelection) = dragCount
        /\ \A i \in 0..(Len(inputs) - 1) :
            inputs[i + 1] =
                IF newStart <= i /\ i < newStart + dragCount
                THEN InputAtDragStart(dragStart + (i - newStart))
                ELSE IF dragStart <= i /\ i < newStart THEN leftNeighbour
                ELSE IF newStart + dragCount <= i /\ i < dragStart + dragCount
                THEN rightNeighbour
                ELSE InputAtDragStart(i)

\* C38: a channel triggered with the length-enable bit (bit 6) set and a
\* length whose play time is not zero has a positive duration in samples, so
\* that it plays (shouldPlay) when its envelope start volume allows it.  The
\* play time is length/64 s for channels 1 and 2, (256 - length)/256 s for
\* channel 3 and (61 - length)/256 s for channel 4.
TriggeredWithLength(address) == op = Op("APU.Write", address, 192)

PlayTimeUnits(address) ==
    LET mem == gb.Sound.Memory
    IN CASE address = 65300 -> And(ArrGet(mem, 17), 63)
         [] address = 65305 -> And(ArrGet(mem, 22), 63)
         [] address = 65310 -> 256 - ArrGet(mem, 27)
         [] address = 65315 -> U8(61 - And(ArrGet(mem, 32), 63))

TriggeredChannel(address) ==
    CASE address = 65300 -> gb.Sound.Channel1
      [] address = 65305 -> gb.Sound.Channel2
      [] address = 65310 -> gb.Sound.Channel3
      [] address = 65315 -> gb.Sound.Channel4

C38_LengthDurationPositive ==
    \A address \in {65300, 65305, 65310, 65315} :
        (TriggeredWithLength(address) /\ PlayTimeUnits(address) > 0) =>
            /\ TriggeredChannel(address).Duration > 0
            /\ TriggeredChannel(address).EnvelopeStepsInit > 0
                    => shouldPlay(TriggeredChannel(address))

\* C40: the trigger of channel 1 sets the sweep to decreasing when bit 3 of
\* register 0xFF10 is 1 and to increasing when it is 0, whatever the sweep
\* time (bits 4-6) and the sweep number (bits 0-2) are.
C40_SweepDirection ==
    op = Op("APU.Write", 65300, 128) =>
        gb.Sound.Channel1.SweepIncrease = (And(ArrGet(gb.Sound.Memory, 16), 8) = 0)

\* C39: after any sequence of set, clear and removeFramesStartingAt calls the
\* frame cache has as many engines as frame indices, at most frameCacheSize
\* of them, no frame index twice and nextIndexToRemove in 0..frameCacheSize-1;
\* latestFrameUpTo(i) returns the entry of the greatest cached frame <= i, or
\* index -1 when no frame <= i is cached; and the engine of an entry is the
\* one most recently set for its frame: set(i, g) makes g the engine of frame
\* i and no call changes the engine of another frame that stays cached.
C39_CacheShape ==
    LET c == ed.frameCache
        n == Len(c.frameIndices)
    IN /\ Len(c.gameboys) = n
       /\ n <= frameCacheSize
       /\ Cardinality({c.frameIndices[i] : i \in 1..n}) = n
       /\ c.nextIndexToRemove \in 0..(frameCacheSize - 1)
       /\ \A i \in CacheFrames :
            \A found \in {latestFrameUpTo(c, i)} :
            \A upTo \in {{e \in CacheEntries(c) : e[1] <= i}} :
                IF upTo = {} THEN found.index = -1
                ELSE /\ <<found.index, found.gb>> \in upTo
                     /\ \A e \in upTo : e[1] <= found.index

C39_CacheStep ==
    \A before \in {CacheEntries(ed.frameCache)} :
    \A after \in {CacheEntries(ed'.frameCache)} :
        /\ IsCall("set") =>
            /\ <<op'.address, EngineAfter(op'.address, op'.value)>> \in after
            /\ \A e \in after : e[1] # op'.address => e \in before
        /\ (IsCall("clear") \/ IsCall("removeFramesStartingAt")) => after \subseteq before

\* C39: the frame cache keeps its shape in every state, and every call leaves
\* each cached frame with the engine most recently set for it.
C39_CacheIntegrity == []C39_CacheShape /\ [][C39_CacheStep]_vars

\* A set call on a full cache has replaced the entry at nextIndexToRemove:
\* frame 0 is gone, frame 500 is cached and 500 frames are.
C39_Witness ==
    /\ op.name = "set"
    /\ op.address = frameCacheSize
    /\ Len(ed.frameCache.frameIndices) = frameCacheSize
    /\ ed.frameCache.nextIndexToRemove = 1
    /\ latestFrameUpTo(ed.frameCache, 0).index = -1
    /\ latestFrameUpTo(ed.frameCache, frameCacheSize + 1).index = frameCacheSize

====
